---- MODULE Spec2Model ----
(***************************************************************************)
(* Polar plotter: the device firmware (motion planner and state machine)   *)
(* and the host's connection manager with its observer wiring.             *)
(*                                                                         *)
(* Numbers: a float f of the firmware is modelled by the integer           *)
(* round(f * FX), i.e. in hundredths, the resolution Serial.print uses.    *)
(***************************************************************************)
EXTENDS Integers, Sequences, FiniteSets, TLC

VARIABLES
    \* ---- device (firmware sketch) ----
    plotterState,            \* "STATE_READY" | "STATE_DRAWING" | "STATE_ERROR"
    currentAngleDeg,         \* authoritative polar position
    currentRadiusMM,
    currentMaxSpeedAngular,  \* speed profile set by SPEED
    currentAccelAngular,
    currentMaxSpeedRadial,
    currentAccelRadial,
    stepperAngular,          \* AccelStepper objects
    stepperRadial,
    estopPin,                \* level of EMERGENCY_STOP_PIN: "HIGH" | "LOW"
    serialIn,                \* lines waiting in the device's receive buffer
    serialOut,               \* lines printed by the last firmware step
    devPc,                   \* position in loop(): "pin" | "serial" | "wait"
    routine,                 \* the blocking routine in progress and its locals
    stepped,                 \* the last firmware step made an actuator step
    linesReceived,           \* number of lines sent to the device so far
    \* ---- host (PlotterSerial and the WebSocket routes) ----
    build,                   \* which serial module is deployed: "serial" | "serial-clean"
    replit,                  \* process.env.REPL_ID or REPLIT_ENVIRONMENT is set
    nodeEnv,                 \* process.env.NODE_ENV
    enumerated,              \* what SerialPort.list() gave during the last step
    port,                    \* this.port: a handle, or 0 for null
    parser,                  \* this.parser: the handle it reads from, or 0 for null
    isConnected,             \* this.isConnected
    messageCallback,         \* the session the callback sends to, or 0 for null
    stateCallback,
    positionCallback,
    handles,                 \* the SerialPort objects created so far
    pendingWrites,           \* writes whose completion callback has not run yet
    clients,                 \* WebSocket sessions: "NONE" | "OPEN"
    emitted,                 \* events the manager emitted during the last step
    delivered,               \* what the last step sent to the sessions, in order
    ops,                     \* PlotterSerial methods, and port.write, called
                             \* during the last step
    returned,                \* what those calls returned, in order
    staleWrites,             \* how many of the oldest writes in flight were in
                             \* flight when disconnect() was last called
    staleTimers,             \* the handles whose open-timeout was pending when
                             \* disconnect() was last called, and still is
    mirror,                  \* the device's state as the 'data' listener
                             \* reported it last to the observers
    \* ---- host (MemStorage) ----
    storageBuild,            \* which copy of MemStorage is deployed
    settings,                \* this.settings, in the order of insertion
    settingsCurrentId        \* this.settingsCurrentId

devVars == <<plotterState, currentAngleDeg, currentRadiusMM,
             currentMaxSpeedAngular, currentAccelAngular,
             currentMaxSpeedRadial, currentAccelRadial,
             stepperAngular, stepperRadial, estopPin, serialIn, serialOut,
             devPc, routine, stepped, linesReceived>>

hostVars == <<build, replit, nodeEnv, enumerated, port, parser, isConnected, messageCallback, stateCallback,
              positionCallback, handles, pendingWrites, clients, emitted,
              delivered, ops, returned, staleWrites, staleTimers, mirror,
              storageBuild, settings, settingsCurrentId>>

vars == <<devVars, hostVars>>

\* ------------------------------------------------------------------------
\* Bounds of the model
\* ------------------------------------------------------------------------
MaxLines == 2         \* lines sent to the device in one run
MaxPending == 1       \* lines waiting in the device's receive buffer
MaxObservers == 2     \* WebSocket sessions open at a time
MaxHandles == 2       \* SerialPort objects created in one run
MaxWrites == 1        \* writes in flight at a time
MaxPorts == 2         \* serial ports the system enumerates
MaxSent == 1          \* command lines that cross the link in one run
MaxSettings == 3      \* settings records created by POST /api/settings
MaxQueued == 2        \* command lines sent in one run of SpecOrder

\* ------------------------------------------------------------------------
\* Fixed point and arithmetic helpers
\* ------------------------------------------------------------------------
FX == 100

Abs(n) == IF n < 0 THEN 0 - n ELSE n

\* n / d rounded to the nearest integer (d > 0)
RoundDiv(n, d) == IF n >= 0 THEN (2 * n + d) \div (2 * d)
                            ELSE 0 - ((2 * (0 - n) + d) \div (2 * d))

\* n / d truncated toward zero, as a C cast to long does (d > 0)
TruncDiv(n, d) == IF n >= 0 THEN n \div d ELSE 0 - ((0 - n) \div d)

RECURSIVE SqrtSearch(_, _, _)
SqrtSearch(n, lo, hi) ==
    IF hi - lo <= 1 THEN lo
    ELSE LET mid == (lo + hi) \div 2
         IN  IF mid * mid <= n THEN SqrtSearch(n, mid, hi)
                               ELSE SqrtSearch(n, lo, mid)

\* floor of the square root of n, 0 <= n < 40000^2
FloorSqrt(n) == SqrtSearch(n, 0, 40000)

\* sqrt(n) to the nearest integer
Sqrt(n) == LET f == FloorSqrt(n)
           IN  IF n - f * f <= (f + 1) * (f + 1) - n THEN f ELSE f + 1

\* sin(d degrees) * 10000 for d in 0..90
SinTable == <<
    0, 175, 349, 523, 698, 872, 1045, 1219, 1392, 1564, 1736, 1908, 2079,
    2250, 2419, 2588, 2756, 2924, 3090, 3256, 3420, 3584, 3746, 3907, 4067,
    4226, 4384, 4540, 4695, 4848, 5000, 5150, 5299, 5446, 5592, 5736, 5878,
    6018, 6157, 6293, 6428, 6561, 6691, 6820, 6947, 7071, 7193, 7314, 7431,
    7547, 7660, 7771, 7880, 7986, 8090, 8192, 8290, 8387, 8480, 8572, 8660,
    8746, 8829, 8910, 8988, 9063, 9135, 9205, 9272, 9336, 9397, 9455, 9511,
    9563, 9613, 9659, 9703, 9744, 9781, 9816, 9848, 9877, 9903, 9925, 9945,
    9962, 9976, 9986, 9994, 9998, 10000 >>

TrigScale == 10000

\* sin and cos of a whole number of degrees, times TrigScale
SinDeg(d) ==
    LET a == d % 360
    IN  IF a <= 90 THEN SinTable[a + 1]
        ELSE IF a <= 180 THEN SinTable[180 - a + 1]
        ELSE IF a <= 270 THEN 0 - SinTable[a - 180 + 1]
        ELSE 0 - SinTable[360 - a + 1]

CosDeg(d) == SinDeg(d + 90)

\* x * sin(a) - y * cos(a): |(x, y)| * sin(a - t) for the direction t of (x, y)
Cross(y, x, a) == x * SinDeg(a) - y * CosDeg(a)

\* the whole degree in lo..hi closest to the direction of (x, y), given
\* Cross(y, x, lo) <= 0 <= Cross(y, x, hi)
RECURSIVE AngleSearch(_, _, _, _)
AngleSearch(y, x, lo, hi) ==
    IF hi - lo <= 1
    THEN IF Abs(Cross(y, x, lo)) <= Abs(Cross(y, x, hi)) THEN lo ELSE hi
    ELSE LET mid == (lo + hi) \div 2
         IN  IF Cross(y, x, mid) <= 0 THEN AngleSearch(y, x, mid, hi)
                                      ELSE AngleSearch(y, x, lo, mid)

\* atan2(y, x) in degrees, normalised to [0, 360) and rounded to the nearest
\* whole degree (the resolution of the table); atan2(0, 0) = 0.
Atan2Deg(y, x) ==
    IF x = 0 /\ y = 0 THEN 0
    ELSE LET lo == IF y >= 0 THEN (IF x > 0 THEN 0 ELSE 90)
                             ELSE (IF x < 0 THEN 180 ELSE 270)
         IN  AngleSearch(y, x, lo, lo + 90) % 360

\* ------------------------------------------------------------------------
\* Strings
\* ------------------------------------------------------------------------
\* A string is the sequence of its fragments, cut so that each pattern the
\* code searches for is a run of whole fragments; the empty sequence stands
\* for '' and for undefined, which these tests do not tell apart.
Undefined == <<>>

\* String.prototype.toLowerCase, fragment by fragment
Lower(fragment) ==
    CASE fragment = "USB" -> "usb"
      [] fragment = "ACM" -> "acm"
      [] fragment = "FTDI" -> "ftdi"
      [] fragment = "Arduino" -> "arduino"
      [] fragment = "Apple" -> "apple"
      [] fragment = "CH340" -> "ch340"
      [] fragment = "STATUS" -> "status"
      [] fragment = "RESET" -> "reset"
      [] fragment = "X" -> "x"
      [] fragment = "Y" -> "y"
      [] OTHER -> fragment

toLowerCase(str) == [i \in 1..Len(str) |-> Lower(str[i])]

\* String.prototype.includes
includes(str, pattern) ==
    \E i \in 0..(Len(str) - Len(pattern)) : SubSeq(str, i + 1, i + Len(pattern)) = pattern

\* a text carried as a message
Chars(str) == [chars |-> str]

\* String.startsWith, String.indexOf (-1 when absent, positions from 0),
\* String.substring and String.trim, of the Arduino core and of JavaScript
startsWith(str, pattern) ==
    Len(str) >= Len(pattern) /\ SubSeq(str, 1, Len(pattern)) = pattern

indexOfFrom(str, c, from) ==
    LET at == {i \in (from + 1)..Len(str) : str[i] = c}
    IN  IF from < 0 \/ at = {} THEN 0 - 1
        ELSE (CHOOSE i \in at : \A j \in at : i <= j) - 1

indexOf(str, c) == indexOfFrom(str, c, 0)

substring(str, from, to) == SubSeq(str, from + 1, to)

substringFrom(str, from) == SubSeq(str, from + 1, Len(str))

Whitespace == {" ", "\n", "\r", "\t"}

trim(str) ==
    LET ink == {i \in 1..Len(str) : str[i] \notin Whitespace}
    IN  IF ink = {} THEN <<>>
        ELSE SubSeq(str, CHOOSE i \in ink : \A j \in ink : i <= j,
                         CHOOSE i \in ink : \A j \in ink : i >= j)

equalsIgnoreCase(str, other) == toLowerCase(str) = toLowerCase(other)

\* decimal digits
DigitChars == <<"0", "1", "2", "3", "4", "5", "6", "7", "8", "9">>

DigitSet == {DigitChars[n] : n \in 1..10}

IsDigit(c) == c \in DigitSet

DigitValue(c) == (CHOOSE n \in 1..10 : DigitChars[n] = c) - 1

RECURSIVE Digits(_)
Digits(n) == IF n < 10 THEN <<DigitChars[n + 1]>>
             ELSE Append(Digits(n \div 10), DigitChars[(n % 10) + 1])

RECURSIVE DigitsValue(_)
DigitsValue(str) ==
    IF str = <<>> THEN 0
    ELSE 10 * DigitsValue(SubSeq(str, 1, Len(str) - 1)) + DigitValue(str[Len(str)])

Sign(v) == IF v < 0 THEN <<"-">> ELSE <<>>

\* the number of leading characters of str that belong to the class
Run(str, class) ==
    LET stops == {i \in 1..Len(str) : str[i] \notin class}
    IN  IF stops = {} THEN Len(str)
        ELSE (CHOOSE i \in stops : \A j \in stops : i <= j) - 1

\* the first two digits of a fraction, as hundredths, rounded by the third
Hundredths(frac) ==
    LET digit(k) == IF k <= Len(frac) THEN DigitValue(frac[k]) ELSE 0
    IN  10 * digit(1) + digit(2) + (IF digit(3) >= 5 THEN 1 ELSE 0)

\* The longest prefix of str that is a decimal literal: leading white space,
\* a sign, digits, a point, digits.  ok tells whether it holds a digit.
Numeric(str) ==
    LET s0 == SubSeq(str, Run(str, Whitespace) + 1, Len(str))
        signed == s0 # <<>> /\ s0[1] \in {"-", "+"}
        s1 == IF signed THEN Tail(s0) ELSE s0
        n == Run(s1, DigitSet)
        rest == SubSeq(s1, n + 1, Len(s1))
        frac == IF rest # <<>> /\ rest[1] = "."
                THEN SubSeq(rest, 2, 1 + Run(Tail(rest), DigitSet)) ELSE <<>>
        magnitude == DigitsValue(SubSeq(s1, 1, n)) * FX + Hundredths(frac)
    IN  [ok |-> n > 0 \/ frac # <<>>,
         value |-> IF signed /\ s0[1] = "-" THEN 0 - magnitude ELSE magnitude]

\* String::toFloat of the Arduino core: 0 when there is no number
toFloat(str) == IF Numeric(str).ok THEN Numeric(str).value ELSE 0

\* JavaScript's parseFloat: NaN when there is no number.  NaN is kept as a
\* number that no decimal literal of the model denotes.
NaN == 0 - 2147483647

parseFloat(str) == IF Numeric(str).ok THEN Numeric(str).value ELSE NaN

\* a print that keeps one digit after the point
printFloatOneDigit(v) ==
    Sign(v) \o Digits(Abs(v) \div FX) \o <<".">>
            \o <<DigitChars[((Abs(v) % FX) \div 10) + 1]>>

\* Print::print(double) of the Arduino core: two digits after the point
printFloat(v) ==
    Sign(v) \o Digits(Abs(v) \div FX) \o <<".">>
            \o <<DigitChars[((Abs(v) % FX) \div 10) + 1], DigitChars[(Abs(v) % 10) + 1]>>

\* Print::print(long)
printLong(n) == Sign(n) \o Digits(Abs(n))

\* a Number to String that leaves the sign out
NumberToStringUnsigned(v) ==
    LET f == Abs(v) % FX
    IN  Digits(Abs(v) \div FX)
          \o (IF f = 0 THEN <<>>
              ELSE IF f % 10 = 0 THEN <<".", DigitChars[(f \div 10) + 1]>>
              ELSE <<".", DigitChars[(f \div 10) + 1], DigitChars[(f % 10) + 1]>>)

\* JavaScript's Number to String, as a template literal applies it: the
\* shortest decimal, no point for a whole number
NumberToString(v) ==
    LET f == Abs(v) % FX
    IN  Sign(v) \o Digits(Abs(v) \div FX)
          \o (IF f = 0 THEN <<>>
              ELSE IF f % 10 = 0 THEN <<".", DigitChars[(f \div 10) + 1]>>
              ELSE <<".", DigitChars[(f \div 10) + 1], DigitChars[(f % 10) + 1]>>)

\* ------------------------------------------------------------------------
\* Firmware constants
\* ------------------------------------------------------------------------
MIN_ANGLE == 0
MAX_ANGLE == 360 * FX
MIN_RADIUS == 0
MAX_RADIUS == 100 * FX
MICROSTEPPING == 16
MOTOR_STEPS == 200
ANGULAR_STEPS_PER_REV == MOTOR_STEPS * MICROSTEPPING
RADIAL_STEPS_PER_MM == 100
BootMaxSpeed == 600 * FX      \* currentMaxSpeedAngular / currentMaxSpeedRadial at boot
BootAccel == 150 * FX         \* currentAccelAngular / currentAccelRadial at boot
homingSpeed == 100 * FX
homingAccel == 50 * FX

\* ------------------------------------------------------------------------
\* Lines printed by the firmware
\* ------------------------------------------------------------------------
Text(t) == [t |-> t]

ErrSoftLimit    == Text("Error: Target coordinates out of soft limits!")
ErrRelative     == Text("Error: Relative move would exceed radial soft limits!")
ErrInvalidMove  == Text("Error: Invalid MOVE command. Format: MOVE <angle> <radius>")
ErrInvalidSpeed == Text("Error: Invalid SPEED command. Format: SPEED <Amax> <Aacc> <Rmax> <Racc>")
ErrUnknown      == Text("Error: Unknown command.")
EstopCmdLine    == Text("Emergency Stop Activated via command!")
EstopPinLine    == Text("Emergency Stop Activated!")
ResetLine       == Text("Resetting emergency stop. System is READY.")
AlreadyReady    == Text("System is already READY.")

\* the lines whose text carries the "Error:" marker
IsErrorLine(l) ==
    l.t \in {ErrSoftLimit.t, ErrRelative.t, ErrInvalidMove.t, ErrInvalidSpeed.t,
             ErrUnknown.t}

\* ------------------------------------------------------------------------
\* AccelStepper, as far as the sketch uses it.  The position of a stepper is
\* kept only as "at its target or not"; stopped marks a target replaced by
\* stop() with the nearest point the motor can decelerate to.
\* ------------------------------------------------------------------------
NewStepper(maxSpeed, accel) ==
    [targetPos |-> 0, atTarget |-> TRUE, stopped |-> FALSE,
     maxSpeed |-> maxSpeed, acceleration |-> accel]

StepperMoveTo(s, absolute) ==
    [s EXCEPT !.targetPos = absolute,
              !.stopped = FALSE,
              !.atTarget = s.atTarget /\ ~s.stopped /\ absolute = s.targetPos]

StepperStop(s) == IF s.atTarget THEN s ELSE [s EXCEPT !.stopped = TRUE]

\* run(): at most one step toward the target; arrives says whether that step
\* was the last one
StepperRun(s, arrives) == IF s.atTarget THEN s ELSE [s EXCEPT !.atTarget = arrives]

DistanceToGoIsZero(s) == s.atTarget

\* ------------------------------------------------------------------------
\* Helper functions: conversion
\* ------------------------------------------------------------------------
convertAngleToSteps(angleDeg) ==
    TruncDiv(angleDeg * ANGULAR_STEPS_PER_REV, 360 * FX)

convertRadiusToSteps(radiusMM) ==
    TruncDiv(radiusMM * RADIAL_STEPS_PER_MM, FX)

polarToCartesian(angleDeg, radiusMM) ==
    [x |-> RoundDiv(radiusMM * CosDeg(angleDeg \div FX), TrigScale),
     y |-> RoundDiv(radiusMM * SinDeg(angleDeg \div FX), TrigScale)]

cartesianToPolar(x, y) ==
    [angleDeg |-> Atan2Deg(y, x) * FX,
     radiusMM |-> Sqrt(x * x + y * y)]

\* ------------------------------------------------------------------------
\* The firmware's globals as one value d, so that the functions of the
\* sketch compose; d.out collects the lines printed.
\* ------------------------------------------------------------------------
Dev == [plotterState |-> plotterState,
        currentAngleDeg |-> currentAngleDeg,
        currentRadiusMM |-> currentRadiusMM,
        currentMaxSpeedAngular |-> currentMaxSpeedAngular,
        currentAccelAngular |-> currentAccelAngular,
        currentMaxSpeedRadial |-> currentMaxSpeedRadial,
        currentAccelRadial |-> currentAccelRadial,
        stepperAngular |-> stepperAngular,
        stepperRadial |-> stepperRadial,
        out |-> <<>>]

SetDev(d) ==
    /\ plotterState' = d.plotterState
    /\ currentAngleDeg' = d.currentAngleDeg
    /\ currentRadiusMM' = d.currentRadiusMM
    /\ currentMaxSpeedAngular' = d.currentMaxSpeedAngular
    /\ currentAccelAngular' = d.currentAccelAngular
    /\ currentMaxSpeedRadial' = d.currentMaxSpeedRadial
    /\ currentAccelRadial' = d.currentAccelRadial
    /\ stepperAngular' = d.stepperAngular
    /\ stepperRadial' = d.stepperRadial
    /\ serialOut' = d.out

Println(d, line) == [d EXCEPT !.out = Append(@, line)]

\* ------------------------------------------------------------------------
\* moveToPolar
\* ------------------------------------------------------------------------
\* the soft-limit test without the upper radius bound
OutOfSoftLimitsNoMaxRadius(targetAngleDeg, targetRadiusMM) ==
    \/ targetAngleDeg < MIN_ANGLE
    \/ targetAngleDeg > MAX_ANGLE
    \/ targetRadiusMM < MIN_RADIUS

OutOfSoftLimits(targetAngleDeg, targetRadiusMM) ==
    \/ targetAngleDeg < MIN_ANGLE
    \/ targetAngleDeg > MAX_ANGLE
    \/ targetRadiusMM < MIN_RADIUS
    \/ targetRadiusMM > MAX_RADIUS

MovingLine(a, r) ==
    [t |-> "Moving to: Angle", angle |-> a, angularSteps |-> convertAngleToSteps(a),
     radius |-> r, radialSteps |-> convertRadiusToSteps(r)]

moveToPolar(d, targetAngleDeg, targetRadiusMM) ==
    IF OutOfSoftLimits(targetAngleDeg, targetRadiusMM)
    THEN Println(d, ErrSoftLimit)
    ELSE [Println(d, MovingLine(targetAngleDeg, targetRadiusMM)) EXCEPT
            !.stepperAngular = StepperMoveTo(@, convertAngleToSteps(targetAngleDeg)),
            !.stepperRadial = StepperMoveTo(@, convertRadiusToSteps(targetRadiusMM)),
            !.currentAngleDeg = targetAngleDeg,
            !.currentRadiusMM = targetRadiusMM]

\* ------------------------------------------------------------------------
\* moveRelativeXY
\* ------------------------------------------------------------------------
\* moveRelativeXY without its own test of the radius
moveRelativeXYUnchecked(d, dx, dy) ==
    LET cur == polarToCartesian(d.currentAngleDeg, d.currentRadiusMM)
        new == cartesianToPolar(cur.x + dx, cur.y + dy)
    IN  moveToPolar(
            Println(d, [t |-> "Relative move: dx=", dx |-> dx, dy |-> dy,
                        angle |-> new.angleDeg, radius |-> new.radiusMM]),
            new.angleDeg, new.radiusMM)

moveRelativeXY(d, dx, dy) ==
    LET cur == polarToCartesian(d.currentAngleDeg, d.currentRadiusMM)
        newX == cur.x + dx
        newY == cur.y + dy
        new == cartesianToPolar(newX, newY)
    IN  IF new.radiusMM < MIN_RADIUS \/ new.radiusMM > MAX_RADIUS
        THEN Println(d, ErrRelative)
        ELSE moveToPolar(
                 Println(d, [t |-> "Relative move: dx=", dx |-> dx, dy |-> dy,
                             angle |-> new.angleDeg, radius |-> new.radiusMM]),
                 new.angleDeg, new.radiusMM)

\* ------------------------------------------------------------------------
\* printStatus
\* ------------------------------------------------------------------------
printStatus(d) ==
    LET cur == polarToCartesian(d.currentAngleDeg, d.currentRadiusMM)
    IN  Println(d, [t |-> "Status - Polar: Angle=", angle |-> d.currentAngleDeg,
                    radius |-> d.currentRadiusMM, x |-> cur.x, y |-> cur.y])

\* ------------------------------------------------------------------------
\* adjustSpeed
\* ------------------------------------------------------------------------
adjustSpeed(d, newMaxSpeedAngular, newAccelAngular, newMaxSpeedRadial, newAccelRadial) ==
    [Println(Println(Println(d, Text("Speed settings updated:")),
                     [t |-> "Angular: MaxSpeed=", maxSpeed |-> newMaxSpeedAngular,
                      accel |-> newAccelAngular]),
             [t |-> "Radial: MaxSpeed=", maxSpeed |-> newMaxSpeedRadial,
              accel |-> newAccelRadial])
     EXCEPT !.currentMaxSpeedAngular = newMaxSpeedAngular,
            !.currentAccelAngular = newAccelAngular,
            !.currentMaxSpeedRadial = newMaxSpeedRadial,
            !.currentAccelRadial = newAccelRadial,
            !.stepperAngular.maxSpeed = newMaxSpeedAngular,
            !.stepperAngular.acceleration = newAccelAngular,
            !.stepperRadial.maxSpeed = newMaxSpeedRadial,
            !.stepperRadial.acceleration = newAccelRadial]

\* ------------------------------------------------------------------------
\* Command lines.  A line is its leading word and the numeric fields that
\* follow it, separated by single spaces ("X10" is the word X and one field).
\* ------------------------------------------------------------------------
Line(cmd, args) == [cmd |-> cmd, args |-> args]

SpeedP == <<800 * FX, 200 * FX, 700 * FX, 250 * FX>>

DeviceLines ==
    { Line("MOVE", <<90 * FX, 50 * FX>>),
      Line("MOVE", <<361 * FX, 10 * FX>>),
      Line("MOVE", <<10 * FX, 0 - 1 * FX>>),
      Line("MOVE", <<10 * FX, 101 * FX>>),
      Line("MOVE", <<30 * FX>>),
      Line("DRAW", <<>>), Line("SQUARE", <<>>), Line("AREA", <<>>),
      Line("X", <<10 * FX>>), Line("Y", <<0 - 10 * FX>>),
      Line("STATUS", <<>>), Line("TEST", <<>>),
      Line("SPEED", SpeedP), Line("SPEED", <<800 * FX>>),
      Line("HOME", <<>>), Line("ESTOP", <<>>), Line("RESET", <<>>),
      Line("FOO", <<>>), Line("", <<>>) }

\* String.toFloat of the k-th field; 0 when there is none
ToFloat(args, k) == IF k <= Len(args) THEN args[k] ELSE 0

IsBlocking(input) == input.cmd \in {"DRAW", "SQUARE", "AREA", "HOME"}

\* ------------------------------------------------------------------------
\* parseSerialCommand: the branches that return without a blocking loop
\* ------------------------------------------------------------------------
MoveCommand(d, input) ==
    IF Len(input.args) = 0 THEN d
    ELSE IF Len(input.args) = 1 THEN Println(d, ErrInvalidMove)
    ELSE moveToPolar(d, ToFloat(input.args, 1), ToFloat(input.args, 2))

TestCommand(d) ==
    moveToPolar(Println(d, Text("Executing test move: advancing 10 deg and 10 mm...")),
                d.currentAngleDeg + 10 * FX, d.currentRadiusMM + 10 * FX)

SpeedCommand(d, input) ==
    IF Len(input.args) = 0 THEN d
    ELSE IF Len(input.args) < 4 THEN Println(d, ErrInvalidSpeed)
    ELSE adjustSpeed(d, ToFloat(input.args, 1), ToFloat(input.args, 2),
                     ToFloat(input.args, 3), ToFloat(input.args, 4))

EstopCommand(d) ==
    [Println(d, EstopCmdLine) EXCEPT
        !.plotterState = "STATE_ERROR",
        !.stepperAngular = StepperStop(@),
        !.stepperRadial = StepperStop(@)]

ResetCommand(d) ==
    IF d.plotterState = "STATE_ERROR"
    THEN [Println(d, ResetLine) EXCEPT !.plotterState = "STATE_READY"]
    ELSE Println(d, AlreadyReady)

ReceivedLine(input) == [t |-> "Received command: ", input |-> input]

\* ------------------------------------------------------------------------
\* The characters of a printed line, as Serial.print and Serial.println
\* put them on the link.  The echo of a command shows its leading word.
\* ------------------------------------------------------------------------
AfterErrorMarker(l) ==
    CASE l = ErrSoftLimit -> " Target coordinates out of soft limits!"
      [] l = ErrRelative -> " Relative move would exceed radial soft limits!"
      [] l = ErrInvalidMove -> " Invalid MOVE command. Format: MOVE <angle> <radius>"
      [] l = ErrInvalidSpeed
           -> " Invalid SPEED command. Format: SPEED <Amax> <Aacc> <Rmax> <Racc>"
      [] OTHER -> " Unknown command."

SerialPrint(l) ==
    IF IsErrorLine(l) THEN <<"Error:", AfterErrorMarker(l)>>
    ELSE IF l.t = "Moving to: Angle"
    THEN <<"Moving to: ", "Angle", " ">> \o printFloat(l.angle)
             \o <<" deg (">> \o printLong(l.angularSteps)
             \o <<" steps), ", "Radius", " ">> \o printFloat(l.radius)
             \o <<" mm (">> \o printLong(l.radialSteps) \o <<" steps)">>
    ELSE IF l.t = "Status - Polar: Angle="
    THEN <<"Status - Polar:", " ", "Angle", "=">> \o printFloat(l.angle)
             \o <<" deg, ", "Radius", "=">> \o printFloat(l.radius)
             \o <<" mm; Cartesian: ", "X", "=">> \o printFloat(l.x)
             \o <<" mm, ", "Y", "=">> \o printFloat(l.y) \o <<" mm">>
    ELSE IF l.t = "Relative move: dx="
    THEN <<"Relative move: dx=">> \o printFloat(l.dx)
             \o <<" mm, dy=">> \o printFloat(l.dy)
             \o <<" mm -> New polar pos: ", "Angle", "=">> \o printFloat(l.angle)
             \o <<" deg, ", "Radius", "=">> \o printFloat(l.radius) \o <<" mm">>
    ELSE IF l.t \in {"Angular: MaxSpeed=", "Radial: MaxSpeed="}
    THEN <<l.t>> \o printFloat(l.maxSpeed) \o <<" steps/sec, Accel=">>
             \o printFloat(l.accel) \o <<" steps/sec^2">>
    ELSE IF l.t = "Received command: " THEN <<l.t, l.input.cmd>>
    ELSE <<l.t>>

\* Serial.println: the line and "\r\n"
SerialPrintln(l) == SerialPrint(l) \o <<"\r", "\n">>

\* Serial.readStringUntil: what the buffer holds before the terminator
readStringUntil(buffer, terminator) ==
    IF indexOf(buffer, terminator) < 0 THEN buffer
    ELSE substring(buffer, 0, indexOf(buffer, terminator))

BareWords == {"DRAW", "SQUARE", "AREA", "STATUS", "TEST", "HOME", "ESTOP", "RESET"}

\* The tests and cuts parseSerialCommand makes on the text it has read, in
\* its order: the word that selects the branch and the fields converted by
\* toFloat.  MOVE and SPEED without their fields keep the one field (or none)
\* that was found, which selects the error (or the silent return).
Tokenise(buffer) ==
    LET input == trim(readStringUntil(buffer, "\n"))
        firstSpace == indexOf(input, " ")
        params == trim(substringFrom(input, firstSpace + 1))
        space1 == indexOf(params, " ")
        space2 == indexOfFrom(params, " ", space1 + 1)
        space3 == indexOfFrom(params, " ", space2 + 1)
        Is(word) == equalsIgnoreCase(input, <<word>>)
    IN  IF input = <<>> THEN Line("", <<>>)
        ELSE IF startsWith(input, <<"MOVE">>)
             THEN IF firstSpace <= 0 THEN Line("MOVE", <<>>)
                  ELSE IF space1 <= 0 THEN Line("MOVE", <<toFloat(params)>>)
                  ELSE Line("MOVE", <<toFloat(substring(params, 0, space1)),
                                      toFloat(substringFrom(params, space1 + 1))>>)
        ELSE IF Is("DRAW") THEN Line("DRAW", <<>>)
        ELSE IF Is("SQUARE") THEN Line("SQUARE", <<>>)
        ELSE IF Is("AREA") THEN Line("AREA", <<>>)
        ELSE IF startsWith(input, <<"X">>) \/ startsWith(input, <<"x">>)
             THEN Line("X", <<toFloat(trim(substringFrom(input, 1)))>>)
        ELSE IF startsWith(input, <<"Y">>) \/ startsWith(input, <<"y">>)
             THEN Line("Y", <<toFloat(trim(substringFrom(input, 1)))>>)
        ELSE IF Is("STATUS") THEN Line("STATUS", <<>>)
        ELSE IF Is("TEST") THEN Line("TEST", <<>>)
        ELSE IF startsWith(input, <<"SPEED">>)
             THEN IF firstSpace <= 0 THEN Line("SPEED", <<>>)
                  ELSE IF space1 > 0 /\ space2 > 0 /\ space3 > 0
                  THEN Line("SPEED", <<toFloat(substring(params, 0, space1)),
                                       toFloat(substring(params, space1 + 1, space2)),
                                       toFloat(substring(params, space2 + 1, space3)),
                                       toFloat(substringFrom(params, space3 + 1))>>)
                  ELSE Line("SPEED", <<toFloat(params)>>)
        ELSE IF Is("HOME") THEN Line("HOME", <<>>)
        ELSE IF Is("ESTOP") THEN Line("ESTOP", <<>>)
        ELSE IF Is("RESET") THEN Line("RESET", <<>>)
        ELSE Line("FOO", <<>>)

parseSerialCommand(d0, input) ==
    LET d == Println(d0, ReceivedLine(input))
    IN  IF input.cmd = "" THEN d0
        ELSE IF input.cmd = "MOVE" THEN MoveCommand(d, input)
        ELSE IF input.cmd = "X" THEN moveRelativeXY(d, ToFloat(input.args, 1), 0)
        ELSE IF input.cmd = "Y" THEN moveRelativeXY(d, 0, ToFloat(input.args, 1))
        ELSE IF input.cmd = "STATUS" THEN printStatus(d)
        ELSE IF input.cmd = "TEST" THEN TestCommand(d)
        ELSE IF input.cmd = "SPEED" THEN SpeedCommand(d, input)
        ELSE IF input.cmd = "ESTOP" THEN EstopCommand(d)
        ELSE IF input.cmd = "RESET" THEN ResetCommand(d)
        ELSE Println(d, ErrUnknown)

\* ------------------------------------------------------------------------
\* The blocking routines: DRAW, SQUARE, AREA and homePlotter
\* ------------------------------------------------------------------------
NoRoutine == [name |-> "NONE", i |-> 0,
              prevMaxSpeedA |-> 0, prevAccelA |-> 0,
              prevMaxSpeedR |-> 0, prevAccelR |-> 0]

DrawSteps == 36
vertexCount == 5

SquareVertices == << <<20 * FX, 20 * FX>>, <<60 * FX, 20 * FX>>,
                     <<60 * FX, 60 * FX>>, <<20 * FX, 60 * FX>>,
                     <<20 * FX, 20 * FX>> >>

SquareTargets == [k \in 1..vertexCount |->
                    cartesianToPolar(SquareVertices[k][1], SquareVertices[k][2])]

RoutineLen(name) == IF name = "SQUARE" THEN vertexCount
                    ELSE IF name = "HOME" THEN 1 ELSE DrawSteps

\* the i-th target (from 0) of a routine
RoutineTarget(name, i) ==
    IF name = "DRAW" THEN [angleDeg |-> i * 10 * FX, radiusMM |-> 50 * FX]
    ELSE IF name = "AREA" THEN [angleDeg |-> i * 10 * FX, radiusMM |-> MAX_RADIUS]
    ELSE IF name = "SQUARE" THEN SquareTargets[i + 1]
    ELSE [angleDeg |-> 0, radiusMM |-> 0]

StartLine(name) ==
    IF name = "DRAW" THEN Text("Drawing circle pattern (50 mm radius)...")
    ELSE IF name = "SQUARE" THEN Text("Drawing 4x4 cm square pattern...")
    ELSE IF name = "AREA"
         THEN Text("Drawing full drawing area outline (circle at MAX_RADIUS)...")
    ELSE Text("Starting homing routine...")

DoneLine(name) ==
    IF name = "DRAW" THEN Text("Circle drawing complete.")
    ELSE IF name = "SQUARE" THEN Text("Square drawing complete.")
    ELSE IF name = "AREA" THEN Text("Area outline drawing complete.")
    ELSE Text("Homing complete. Home position set to (0,0).")

\* homePlotter up to its wait loop: save the steppers' settings, set the
\* homing speeds
HomeBegin(d) ==
    [d EXCEPT !.stepperAngular.maxSpeed = homingSpeed,
              !.stepperAngular.acceleration = homingAccel,
              !.stepperRadial.maxSpeed = homingSpeed,
              !.stepperRadial.acceleration = homingAccel]

HomeSaved(d) ==
    [name |-> "HOME", i |-> 0,
     prevMaxSpeedA |-> d.stepperAngular.maxSpeed,
     prevAccelA |-> d.stepperAngular.acceleration,
     prevMaxSpeedR |-> d.stepperRadial.maxSpeed,
     prevAccelR |-> d.stepperRadial.acceleration]

\* homePlotter without its restore
HomeFinishNoRestore(d, r) == d

\* homePlotter after its wait loop: restore the saved settings
HomeFinish(d, r) ==
    [d EXCEPT !.stepperAngular.maxSpeed = r.prevMaxSpeedA,
              !.stepperAngular.acceleration = r.prevAccelA,
              !.stepperRadial.maxSpeed = r.prevMaxSpeedR,
              !.stepperRadial.acceleration = r.prevAccelR]

\* the routine's first moveToPolar
RoutineStart(d0, input) ==
    LET name == input.cmd
        d1 == Println(Println(d0, ReceivedLine(input)), StartLine(name))
        d2 == IF name = "HOME" THEN HomeBegin(d1) ELSE d1
        t == RoutineTarget(name, 0)
    IN  moveToPolar(d2, t.angleDeg, t.radiusMM)

RoutineLocals(d, input) ==
    IF input.cmd = "HOME" THEN HomeSaved(d)
    ELSE [NoRoutine EXCEPT !.name = input.cmd]

\* ------------------------------------------------------------------------
\* loop()
\* ------------------------------------------------------------------------
\* an emergency stop that clears itself when the button is released
CheckEmergencyStopAutoClear(d, pin) ==
    IF pin = "LOW" /\ d.plotterState # "STATE_ERROR"
    THEN [Println(d, EstopPinLine) EXCEPT
            !.plotterState = "STATE_ERROR",
            !.stepperAngular = StepperStop(@),
            !.stepperRadial = StepperStop(@)]
    ELSE IF pin = "HIGH" THEN [d EXCEPT !.plotterState = "STATE_READY"]
    ELSE d

CheckEmergencyStop(d, pin) ==
    IF pin = "LOW" /\ d.plotterState # "STATE_ERROR"
    THEN [Println(d, EstopPinLine) EXCEPT
            !.plotterState = "STATE_ERROR",
            !.stepperAngular = StepperStop(@),
            !.stepperRadial = StepperStop(@)]
    ELSE d

MayRun(state) == state = "STATE_READY" \/ state = "STATE_DRAWING"

\* both steppers run once
RunBoth(d, arrivesA, arrivesR) ==
    [d EXCEPT !.stepperAngular = StepperRun(@, arrivesA),
              !.stepperRadial = StepperRun(@, arrivesR)]

Moving(d) == ~DistanceToGoIsZero(d.stepperAngular) \/ ~DistanceToGoIsZero(d.stepperRadial)

envUnchanged == UNCHANGED <<estopPin, linesReceived, hostVars>>

LoopCheckPin ==
    /\ devPc = "pin"
    /\ SetDev(CheckEmergencyStop(Dev, estopPin))
    /\ devPc' = "serial"
    /\ stepped' = FALSE
    /\ UNCHANGED <<serialIn, routine>>
    /\ envUnchanged

\* if (Serial.available() > 0) parseSerialCommand();  and, unless a blocking
\* routine has begun, the rest of loop(): the steppers run once if the
\* system is READY or DRAWING
LoopSerial ==
    /\ devPc = "serial"
    /\ envUnchanged
    /\ LET input == IF serialIn = <<>> THEN Line("", <<>>) ELSE Head(serialIn)
           d == IF serialIn = <<>> THEN Dev ELSE parseSerialCommand(Dev, input)
       IN  /\ serialIn' = IF serialIn = <<>> THEN serialIn ELSE Tail(serialIn)
           /\ IF IsBlocking(input)
              THEN /\ SetDev(RoutineStart(Dev, input))
                   /\ routine' = RoutineLocals(Dev, input)
                   /\ devPc' = "wait"
                   /\ stepped' = FALSE
              ELSE /\ UNCHANGED routine
                   /\ devPc' = "pin"
                   /\ IF MayRun(d.plotterState) /\ Moving(d)
                      THEN \E arrivesA, arrivesR \in BOOLEAN :
                               /\ SetDev(RunBoth(d, arrivesA, arrivesR))
                               /\ stepped' = TRUE
                      ELSE /\ SetDev(d)
                           /\ stepped' = FALSE

\* both steppers run until neither has any distance to go
\* a wait loop that is left at once
RunToTargetSkipped(d) == d

RunToTarget(d) ==
    [d EXCEPT !.stepperAngular.atTarget = TRUE,
              !.stepperRadial.atTarget = TRUE]

\* A routine's  while (distanceToGo != 0) { run(); run(); }  for the target
\* issued last, run to its end (nothing else of the firmware executes inside
\* it), then what follows it: the next moveToPolar, or the routine's end.
RoutineStep ==
    /\ devPc = "wait"
    /\ envUnchanged
    /\ UNCHANGED serialIn
    /\ stepped' = Moving(Dev)
    /\ LET d == RunToTarget(Dev)
       IN  IF routine.i + 1 < RoutineLen(routine.name)
           THEN LET t == RoutineTarget(routine.name, routine.i + 1)
                IN  /\ SetDev(moveToPolar(d, t.angleDeg, t.radiusMM))
                    /\ routine' = [routine EXCEPT !.i = @ + 1]
                    /\ UNCHANGED devPc
           ELSE /\ SetDev(Println(IF routine.name = "HOME"
                                  THEN HomeFinish(d, routine) ELSE d,
                                  DoneLine(routine.name)))
                /\ routine' = NoRoutine
                /\ devPc' = "pin"

\* ---- the device's environment ----
fwUnchanged ==
    UNCHANGED <<plotterState, currentAngleDeg, currentRadiusMM,
                currentMaxSpeedAngular, currentAccelAngular,
                currentMaxSpeedRadial, currentAccelRadial,
                stepperAngular, stepperRadial, serialOut, devPc, routine, stepped>>

\* the emergency stop button is pressed or released
EstopButton ==
    /\ estopPin' = IF estopPin = "HIGH" THEN "LOW" ELSE "HIGH"
    /\ UNCHANGED <<serialIn, linesReceived, hostVars>>
    /\ fwUnchanged

\* a line arrives on the serial link
SerialReceive ==
    /\ linesReceived < MaxLines
    /\ Len(serialIn) < MaxPending
    /\ \E input \in DeviceLines : serialIn' = Append(serialIn, input)
    /\ linesReceived' = linesReceived + 1
    /\ UNCHANGED <<estopPin, hostVars>>
    /\ fwUnchanged

\* the state after setup(): READY, and the startup test move issued
DeviceInit ==
    LET boot == [plotterState |-> "STATE_READY",
                 currentAngleDeg |-> 0, currentRadiusMM |-> 0,
                 currentMaxSpeedAngular |-> BootMaxSpeed,
                 currentAccelAngular |-> BootAccel,
                 currentMaxSpeedRadial |-> BootMaxSpeed,
                 currentAccelRadial |-> BootAccel,
                 stepperAngular |-> NewStepper(BootMaxSpeed, BootAccel),
                 stepperRadial |-> NewStepper(BootMaxSpeed, BootAccel),
                 out |-> <<>>]
        d == moveToPolar(boot, 10 * FX, 10 * FX)
    IN  /\ plotterState = d.plotterState
        /\ currentAngleDeg = d.currentAngleDeg
        /\ currentRadiusMM = d.currentRadiusMM
        /\ currentMaxSpeedAngular = d.currentMaxSpeedAngular
        /\ currentAccelAngular = d.currentAccelAngular
        /\ currentMaxSpeedRadial = d.currentMaxSpeedRadial
        /\ currentAccelRadial = d.currentAccelRadial
        /\ stepperAngular = d.stepperAngular
        /\ stepperRadial = d.stepperRadial
        /\ serialOut = d.out
        /\ estopPin = "HIGH"
        /\ serialIn = <<>>
        /\ devPc = "pin"
        /\ routine = NoRoutine
        /\ stepped = FALSE
        /\ linesReceived = 0

DeviceNext ==
    \/ LoopCheckPin
    \/ LoopSerial
    \/ RoutineStep
    \/ EstopButton
    \/ SerialReceive


\* ========================================================================
\* Host: PlotterSerial (serial.ts, serial-clean.ts) and the routes
\* ========================================================================
Observers == 1..MaxObservers
HandleIds == 1..MaxHandles
Builds == {"serial", "serial-clean"}
Paths == {"/dev/ttyUSB0"}

\* a SerialPort object: state is "none" (not created), "opening", "open",
\* "closing", "closed"; openTimer is the pending open-timeout; errorListeners
\* and parsers count what setupListeners attached to it; promise is the state
\* of the connect call that created it, by the session that asked (0: the
\* REST endpoint).  The path it was created with is read by nothing
\* afterwards and is not kept.
NoHandle == [state |-> "none", openTimer |-> FALSE,
             errorListeners |-> 0, parsers |-> 0, promise |-> "none", by |-> 0]

ClosedHandle == [NoHandle EXCEPT !.state = "closed", !.promise = "settled"]

\* SerialPort.isOpen
IsOpen(hs, h) == h # 0 /\ hs[h].state = "open"

\* ---- events pushed to the sessions ----
\* message is a line of text, Text(...) for a fixed one
LogMessage(type, message) == [ev |-> "log_message", type |-> type, message |-> message]
PlotterStateEvent(state) == [ev |-> "plotter_state", state |-> state]
PlotterPosition(pos) == [ev |-> "plotter_position", position |-> pos]
ConnectionStatus(connected) == [ev |-> "connection_status", connected |-> connected]
ErrorEvent(message) == [ev |-> "error", message |-> message]

\* ---- the manager and the sessions as one value m ----
Host == [build |-> build, replit |-> replit, nodeEnv |-> nodeEnv, port |-> port, parser |-> parser,
         isConnected |-> isConnected,
         messageCallback |-> messageCallback,
         stateCallback |-> stateCallback,
         positionCallback |-> positionCallback,
         handles |-> handles, pendingWrites |-> pendingWrites,
         clients |-> clients,
         emitted |-> <<>>, delivered |-> <<>>, ops |-> <<>>, returned |-> <<>>,
         staleWrites |-> staleWrites, staleTimers |-> staleTimers]

\* the state the manager holds the device to be in after it has emitted
\* the events l: the state of the last state event, else what it was
Mirrored(was, l) ==
    LET states == {i \in 1..Len(l) : l[i].ev = "plotter_state"}
    IN  IF states = {} THEN was
        ELSE l[CHOOSE i \in states : \A j \in states : j <= i].state

SetFields(m) ==
    /\ port' = m.port
    /\ parser' = m.parser
    /\ isConnected' = m.isConnected
    /\ messageCallback' = m.messageCallback
    /\ stateCallback' = m.stateCallback
    /\ positionCallback' = m.positionCallback
    /\ handles' = m.handles
    /\ pendingWrites' = m.pendingWrites
    /\ clients' = m.clients
    /\ emitted' = m.emitted
    /\ delivered' = m.delivered
    /\ ops' = m.ops
    /\ returned' = m.returned
    /\ staleWrites' = m.staleWrites
    /\ staleTimers' = m.staleTimers \cap {h \in DOMAIN m.handles : m.handles[h].openTimer}
    /\ UNCHANGED <<build, replit, nodeEnv>>

\* the manager stores no copy of the device's state; mirror follows what
\* the 'data' listener reports where the device's lines are read one by one
\* (MirrorRead) and is left alone by every other step
SetManager(m) == SetFields(m) /\ UNCHANGED mirror

\* a step of the connection manager and its routes leaves the storage alone
SetHost(m) ==
    /\ SetManager(m)
    /\ UNCHANGED <<storageBuild, settings, settingsCurrentId>>

\* sendToClient(ws, event, data); src is the index in m.emitted of the
\* emission that caused it, 0 when the route sends on its own
SendFrom(m, ws, event, src) ==
    IF m.clients[ws] = "OPEN"
    THEN [m EXCEPT !.delivered = Append(@, [to |-> ws, event |-> event, src |-> src])]
    ELSE m

sendToClient(m, ws, event) == SendFrom(m, ws, event, 0)

\* the closures installed by wss.on('connection'): each sends to its own ws
Invoke(m, callback, event) ==
    LET m1 == [m EXCEPT !.emitted = Append(@, event)]
    IN  IF callback = 0 THEN m1
        ELSE SendFrom(m1, callback, event, Len(m1.emitted))

CallMessage(m, type, message) == Invoke(m, m.messageCallback, LogMessage(type, message))
CallState(m, state) == Invoke(m, m.stateCallback, PlotterStateEvent(state))
CallPosition(m, pos) == Invoke(m, m.positionCallback, PlotterPosition(pos))

Called(m, method) == [m EXCEPT !.ops = Append(@, method)]

\* return value of a method call
Return(m, value) == [m EXCEPT !.returned = Append(@, value)]

\* ---- PlotterSerial.isPortConnected ----
isPortConnected(m) == m.isConnected /\ m.port # 0 /\ IsOpen(m.handles, m.port)

\* ---- PlotterSerial.disconnect ----
ClosePort(m) ==
    IF m.port # 0 /\ IsOpen(m.handles, m.port)
    THEN [m EXCEPT !.handles[m.port].state = "closing"]
    ELSE m

\* a disconnect() that resets the connection state only after closing a port
ResetConnectionIfClosed(m) ==
    IF m.port # 0 /\ m.handles[m.port].state = "closing"
    THEN [m EXCEPT !.port = 0, !.parser = 0, !.isConnected = FALSE]
    ELSE m

ResetConnection(m) == [m EXCEPT !.port = 0, !.parser = 0, !.isConnected = FALSE]

\* serial-clean.ts only: notify through the callbacks
NotifyDisconnected(m) ==
    IF m.build = "serial-clean"
    THEN CallState(CallMessage(m, "info", Text("Disconnected from device")), "DISCONNECTED")
    ELSE m

\* what is still under way at the call: writes in flight, open-timeouts
Pending(m) ==
    [m EXCEPT !.staleWrites = Len(m.pendingWrites),
              !.staleTimers = {h \in DOMAIN m.handles : m.handles[h].openTimer}]

disconnect(m) ==
    NotifyDisconnected(ResetConnection(ClosePort(Pending(Called(m, "disconnect")))))

\* ---- PlotterSerial.setupListeners ----
setupListeners(m) ==
    IF m.port = 0 \/ m.parser = 0 THEN m
    ELSE [m EXCEPT !.handles[m.port].errorListeners = @ + 1,
                   !.handles[m.port].parsers = @ + 1]

\* ---- the routes' continuation of  await plotterSerial.connect(...) ----
RECURSIVE Broadcast(_, _, _)
\* wss.clients.forEach(client => ... sendToClient(client, ...) for each event)
Broadcast(m, events, ws) ==
    IF ws > MaxObservers THEN m
    ELSE LET m1 == IF Len(events) >= 1 THEN sendToClient(m, ws, events[1]) ELSE m
             m2 == IF Len(events) >= 2 THEN sendToClient(m1, ws, events[2]) ELSE m1
             m3 == IF Len(events) >= 3 THEN sendToClient(m2, ws, events[3]) ELSE m2
         IN  Broadcast(m3, events, ws + 1)

ConnectedEvents ==
    << ConnectionStatus(TRUE), PlotterStateEvent("READY"),
       LogMessage("info", Text("Connected")) >>

DisconnectedEvents ==
    << ConnectionStatus(FALSE), PlotterStateEvent("DISCONNECTED"),
       LogMessage("info", Text("Disconnected from device")) >>

HardwareNote == Text("Physical hardware connections are not possible in Replit")

AfterConnect(m, by, outcome) ==
    IF outcome = "resolved"
    THEN IF by = 0 THEN Broadcast(m, ConnectedEvents, 1)
         ELSE sendToClient(sendToClient(sendToClient(m, by,
                  ConnectionStatus(TRUE)), by,
                  PlotterStateEvent("READY")), by,
                  LogMessage("info", Text("Connected")))
    ELSE IF by = 0
         THEN IF m.replit /\ m.build = "serial"
              THEN \* routes.ts: "force success for demo"
                   Broadcast([m EXCEPT !.isConnected = TRUE], ConnectedEvents, 1)
              ELSE m
         ELSE LET m1 == sendToClient(sendToClient(m, by,
                            ErrorEvent("Failed to connect")), by,
                            LogMessage("error", Text("Failed to connect")))
              IN  IF m.replit /\ m.build = "serial-clean"
                  THEN sendToClient(m1, by, LogMessage("info", HardwareNote))
                  ELSE m1

\* ---- PlotterSerial.connect, up to the call of port.open ----
FreeHandle(hs) == CHOOSE h \in HandleIds :
                     hs[h].state = "none" /\ \A g \in HandleIds : g < h => hs[g].state # "none"

connect(m0, portPath, by) ==
    LET m1 == Called(m0, "connect")
        m == IF m1.isConnected THEN disconnect(m1) ELSE m1
        h == FreeHandle(m.handles)
    IN  IF m.build = "serial-clean" /\ m.replit
        THEN \* serial-clean.ts: no hardware in Replit, the call is rejected
             AfterConnect(m, by, "rejected")
        ELSE [m EXCEPT !.port = h,
                       !.handles[h] = [state |-> "opening",
                                       openTimer |-> TRUE, errorListeners |-> 0,
                                       parsers |-> 0, promise |-> "pending", by |-> by]]

\* resolve(true) / reject(err) of the connect call that created handle h; a
\* promise settles once, later calls have no effect; the awaiting route runs
\* its continuation and is gone
Settle(m, h, outcome) ==
    IF m.handles[h].promise = "pending"
    THEN AfterConnect([m EXCEPT !.handles[h].promise = "settled",
                                !.handles[h].by = 0],
                      m.handles[h].by, outcome)
    ELSE m

\* ---- the callback of port.open in connect ----
OpenCallback(m0, h, err) ==
    LET m == [m0 EXCEPT !.handles[h].openTimer = FALSE,
                        !.handles[h].state = IF err THEN "closed" ELSE "open"]
    IN  IF err THEN Settle(m, h, "rejected")
        ELSE IF m.port = 0 THEN m      \* this.port!.pipe throws: the callback ends
        ELSE Settle([setupListeners([m EXCEPT !.parser = m.port])
                        EXCEPT !.isConnected = TRUE], h, "resolved")

\* ---- the port's 'error' listeners and the parser's 'data' listeners ----
OnError(m) == disconnect(CallMessage(m, "error", Text("Serial port error")))

RECURSIVE OnErrorTimes(_, _)
OnErrorTimes(m, n) == IF n = 0 THEN m ELSE OnErrorTimes(OnError(m), n - 1)

\* the markers parseResponse looks for
HasError(message) == includes(message, <<"Error:">>)
HasStateReady(message) == includes(message, <<"STATE_READY">>)
HasStateDrawing(message) == includes(message, <<"STATE_DRAWING">>)
HasStatus(message) == includes(message, <<"Status - Polar:">>)
HasMoving(message) == includes(message, <<"Moving to: ", "Angle">>)

\* the character classes [0-9.] and [0-9.-]
Unsigned == DigitSet \cup {"."}
Signed == DigitSet \cup {".", "-"}

NoMatch == <<>>

\* message.match(/prefix([class]+)/)[1]: the leftmost place where the prefix
\* is followed by a character of the class, and the longest run from there
Match(message, prefix, class) ==
    LET n == Len(prefix)
        at == {i \in 0..(Len(message) - n - 1) :
                   /\ SubSeq(message, i + 1, i + n) = prefix
                   /\ message[i + n + 1] \in class}
        first == CHOOSE i \in at : \A j \in at : i <= j
        rest == SubSeq(message, first + n + 1, Len(message))
    IN  IF at = {} THEN NoMatch ELSE SubSeq(rest, 1, Run(rest, class))

\* radius * Math.cos(angle * (Math.PI / 180)) and the like; NaN if either is
Product(radius, angle, trig) ==
    IF radius = NaN \/ angle = NaN THEN NaN
    ELSE RoundDiv(radius * (IF trig = "cos" THEN CosDeg(angle \div FX)
                                           ELSE SinDeg(angle \div FX)), TrigScale)

parseResponse(m0, message) ==
    LET m1 == IF HasError(message) THEN CallState(m0, "ERROR")
              ELSE IF HasStateReady(message) THEN CallState(m0, "READY")
              ELSE IF HasStateDrawing(message) THEN CallState(m0, "DRAWING")
              ELSE m0
        angleMatch == Match(message, <<"Angle", "=">>, Unsigned)
        radiusMatch == Match(message, <<"Radius", "=">>, Unsigned)
        xMatch == Match(message, <<"X", "=">>, Signed)
        yMatch == Match(message, <<"Y", "=">>, Signed)
        m2 == IF /\ HasStatus(message)
                 /\ angleMatch # NoMatch /\ radiusMatch # NoMatch
                 /\ xMatch # NoMatch /\ yMatch # NoMatch
              THEN CallPosition(m1, [angle |-> parseFloat(angleMatch),
                                     radius |-> parseFloat(radiusMatch),
                                     x |-> parseFloat(xMatch),
                                     y |-> parseFloat(yMatch)])
              ELSE m1
        angle == parseFloat(Match(message, <<"Angle", " ">>, Unsigned))
        radius == parseFloat(Match(message, <<"Radius", " ">>, Unsigned))
    IN  IF /\ HasMoving(message)
           /\ Match(message, <<"Angle", " ">>, Unsigned) # NoMatch
           /\ Match(message, <<"Radius", " ">>, Unsigned) # NoMatch
        THEN CallPosition(m2, [angle |-> angle, radius |-> radius,
                               x |-> Product(radius, angle, "cos"),
                               y |-> Product(radius, angle, "sin")])
        ELSE m2

\* the parser's 'data' listener: data.toString().trim(), the received log
\* entry, then parseResponse
\* the 'data' listener with its two calls exchanged
OnDataLogLast(m, data) ==
    CallMessage(parseResponse(m, trim(data.chars)), "received", Chars(trim(data.chars)))

OnData(m, data) ==
    parseResponse(CallMessage(m, "received", Chars(trim(data.chars))), trim(data.chars))

RECURSIVE OnDataTimes(_, _, _)
OnDataTimes(m, line, n) == IF n = 0 THEN m ELSE OnDataTimes(OnData(m, line), line, n - 1)

\* ---- PlotterSerial.sendCommand ----
HostCommands ==
    { [type |-> "MOVE", angle |-> 30 * FX, radius |-> 50 * FX] }

\* the switch of sendCommand: cmdString, the line without its newline
cmdString(command) ==
    IF command.type = "MOVE"
    THEN <<"MOVE", " ">> \o NumberToString(command.angle)
                   \o <<" ">> \o NumberToString(command.radius)
    ELSE IF command.type \in {"X", "Y"}
    THEN <<command.type>> \o NumberToString(command.value)
    ELSE IF command.type = "SPEED"
    THEN <<"SPEED", " ">> \o NumberToString(command.angularMax)
                    \o <<" ">> \o NumberToString(command.angularAccel)
                    \o <<" ">> \o NumberToString(command.radialMax)
                    \o <<" ">> \o NumberToString(command.radialAccel)
    ELSE IF command.type = "RAW" THEN command.command
    ELSE <<command.type>>

Encode(command) == Chars(cmdString(command))

\* what port.write is given: cmdString + '\n'
Written(w) == w.chars \o <<"\n">>

\* a sendCommand that writes without looking at the connection
sendCommandUnguarded(m0, command) ==
    Return(Called([Called(m0, "sendCommand") EXCEPT
                       !.pendingWrites = Append(@, Encode(command))], "port.write"),
           TRUE)

\* a sendCommand whose write overtakes the writes in flight
sendCommandFirst(m0, command) ==
    LET m == Called(m0, "sendCommand")
    IN  IF ~isPortConnected(m) THEN Return(m, FALSE)
        ELSE Return(Called([m EXCEPT !.pendingWrites = <<Encode(command)>> \o @],
                           "port.write"), TRUE)

sendCommand(m0, command) ==
    LET m == Called(m0, "sendCommand")
    IN  IF ~isPortConnected(m) THEN Return(m, FALSE)
        ELSE Return(Called([m EXCEPT !.pendingWrites = Append(@, Encode(command))],
                           "port.write"), TRUE)

\* a write callback that writes the line again when the write failed
WriteCallbackRetry(m, w, err) ==
    IF err THEN Called([m EXCEPT !.pendingWrites = Append(@, w)], "port.write")
    ELSE CallMessage(m, "sent", w)

\* the callback of port.write
WriteCallback(m, w, err) ==
    IF err THEN CallMessage(m, "error", Text("Failed to send command"))
    ELSE CallMessage(m, "sent", w)

\* ---- lines the host may read from a port ----
\* what the ReadlineParser hands over for a printed line: the characters
\* before the "\n"
Delimited(l) == Chars(readStringUntil(SerialPrintln(l), "\n"))

HostLines ==
    { Delimited(ErrSoftLimit), Delimited(MovingLine(90 * FX, 50 * FX)) }

\* ------------------------------------------------------------------------
\* PlotterSerial.listPorts
\* ------------------------------------------------------------------------
SerialPortInfo(path, manufacturer, vendorId) ==
    [path |-> path, manufacturer |-> manufacturer, vendorId |-> vendorId]

\* the ports SerialPort.list() may report
SystemPorts ==
    { SerialPortInfo(<<"/dev/", "tty", "ACM", "0">>,
                     <<"Arduino", " (www.", "arduino", ".cc)">>, "2341"),
      SerialPortInfo(<<"/dev/", "tty", "USB", "0">>, <<"FTDI">>, "0403"),
      SerialPortInfo(<<"/dev/", "tty", ".", "wch", "usb", "serial", "1410">>,
                     <<"wch", ".cn">>, "1a86"),
      SerialPortInfo(<<"/dev/", "tty", "S", "0">>, Undefined, "0000"),
      SerialPortInfo(<<"/dev/", "tty", ".", "usb", "serial", "-A9">>,
                     <<"Arduino", " LLC">>, "2a03") }

\* the lists of up to MaxPorts different ports
Distinct(l) == \A i, j \in 1..Len(l) : i # j => l[i] # l[j]

PortLists ==
    { l \in UNION { [1..n -> SystemPorts] : n \in 0..MaxPorts } : Distinct(l) }

\* outcomes of SerialPort.list(): it rejects, or resolves with a list
NotListed == [ok |-> FALSE, ports |-> <<>>, called |-> FALSE]
ListFailed == [ok |-> FALSE, ports |-> <<>>, called |-> TRUE]
Listed(l) == [ok |-> TRUE, ports |-> l, called |-> TRUE]
Listings == { ListFailed } \cup { Listed(l) : l \in PortLists }

\* serial.ts: the ports added for demonstration
mockPorts ==
    << SerialPortInfo(<<"/dev/", "tty", ".", "usb", "modem", "14201">>,
                      <<"Arduino", " (www.", "arduino", ".cc)">>, "2341"),
       SerialPortInfo(<<"/dev/", "cu", ".", "usb", "serial", "-A6004byf">>,
                      <<"FTDI">>, "0403"),
       SerialPortInfo(<<"/dev/", "tty", ".", "wch", "usb", "serial", "14240">>,
                      <<"wch", ".cn">>, "1a86"),
       SerialPortInfo(<<"/dev/", "tty", ".", "Bluetooth-Incoming-Port">>,
                      <<"Apple", " Inc.">>, "05ac"),
       SerialPortInfo(<<"COM3">>, <<"Microsoft">>, "1a86") >>

\* the map to enhancedPorts; displayName repeats path and manufacturer and
\* is left out
isAppleDevice(p) ==
    \/ includes(toLowerCase(p.manufacturer), <<"apple">>)
    \/ includes(toLowerCase(p.path), <<"usb", "modem">>)
    \/ includes(toLowerCase(p.path), <<"cu", ".">>)
    \/ includes(toLowerCase(p.path), <<"tty", ".">>)

Enhance(p) ==
    [path |-> p.path, manufacturer |-> p.manufacturer, vendorId |-> p.vendorId,
     isAppleDevice |-> isAppleDevice(p)]

enhancedPorts(l) == [i \in 1..Len(l) |-> Enhance(l[i])]

\* ---- the comparator of serial.ts ----
IsFTDI(a) == \/ includes(toLowerCase(a.manufacturer), <<"ftdi">>)
             \/ includes(toLowerCase(a.path), <<"tty", ".", "usb", "serial">>)
IsArduino(a) == \/ includes(toLowerCase(a.manufacturer), <<"arduino">>)
                \/ includes(toLowerCase(a.path), <<"arduino">>)
IsCH340(a) == \/ includes(toLowerCase(a.manufacturer), <<"ch340">>)
              \/ includes(toLowerCase(a.path), <<"wch", "usb", "serial">>)

Compare(a, b) ==
    IF IsArduino(a) /\ ~IsArduino(b) THEN -1
    ELSE IF ~IsArduino(a) /\ IsArduino(b) THEN 1
    ELSE IF IsFTDI(a) /\ ~IsFTDI(b) THEN -1
    ELSE IF ~IsFTDI(a) /\ IsFTDI(b) THEN 1
    ELSE IF IsCH340(a) /\ ~IsCH340(b) THEN -1
    ELSE IF ~IsCH340(a) /\ IsCH340(b) THEN 1
    ELSE 0

\* ---- the comparator of serial-clean.ts ----
IsArduinoClean(a) == includes(toLowerCase(a.manufacturer), <<"arduino">>)
IsUSBSerial(a) == \/ includes(toLowerCase(a.path), <<"usb", "serial">>)
                  \/ includes(toLowerCase(a.path), <<"tty", "usb">>)
                  \/ includes(toLowerCase(a.path), <<"tty", "acm">>)

CompareClean(a, b) ==
    IF IsArduinoClean(a) /\ ~IsArduinoClean(b) THEN -1
    ELSE IF ~IsArduinoClean(a) /\ IsArduinoClean(b) THEN 1
    ELSE IF IsUSBSerial(a) /\ ~IsUSBSerial(b) THEN -1
    ELSE IF ~IsUSBSerial(a) /\ IsUSBSerial(b) THEN 1
    ELSE 0

compare(b, x, y) == IF b = "serial" THEN Compare(x, y) ELSE CompareClean(x, y)

\* Array.prototype.sort: a stable sort; x goes behind the last element that
\* does not have to come after it
Insert(b, sorted, x) ==
    LET before == {k \in 1..Len(sorted) : compare(b, sorted[k], x) <= 0}
        at == IF before = {} THEN 0
              ELSE CHOOSE k \in before : \A j \in before : j <= k
    IN  SubSeq(sorted, 1, at) \o <<x>> \o SubSeq(sorted, at + 1, Len(sorted))

RECURSIVE Sort(_, _)
Sort(b, l) ==
    IF l = <<>> THEN <<>>
    ELSE LET sorted == Sort(b, SubSeq(l, 1, Len(l) - 1))
         IN  Insert(b, sorted, l[Len(l)])

\* the entries serial-clean.ts returns in place of ports
HardwareUnavailable ==
    [path |-> <<"HARDWARE_UNAVAILABLE">>,
     manufacturer |-> <<"IMPORTANT: HARDWARE ACCESS UNAVAILABLE IN REPLIT">>,
     vendorId |-> "", isAppleDevice |-> FALSE]

ErrorEntry ==
    [path |-> <<"ERROR">>, manufacturer |-> <<"Error scanning ports">>,
     vendorId |-> "", isAppleDevice |-> FALSE]

\* what listPorts resolves with when SerialPort.list() ends as listing says
PortsOf(m, listing) ==
    IF m.build = "serial"
    THEN IF ~listing.ok THEN <<>>
         ELSE LET includeMockPorts == Len(listing.ports) = 0 \/ m.nodeEnv # "production"
                  allPorts == IF includeMockPorts THEN listing.ports \o mockPorts
                              ELSE listing.ports
              IN  Sort(m.build, enhancedPorts(allPorts))
    ELSE IF m.replit THEN <<HardwareUnavailable>>
         ELSE IF ~listing.ok THEN <<ErrorEntry>>
         ELSE Sort(m.build, enhancedPorts(listing.ports))

listPorts(m, listing) == Return(Called(m, "listPorts"), PortsOf(m, listing))

AvailablePorts(ports) == [ev |-> "available_ports", ports |-> ports]

\* ------------------------------------------------------------------------
\* Host actions
\* ------------------------------------------------------------------------
\* the device is not involved and SerialPort.list() is not called
devUnchanged == UNCHANGED devVars /\ enumerated' = NotListed

HasFreeHandle == \E h \in HandleIds : handles[h].state = "none"

\* a connect call of the session ws has not settled yet
Awaiting(ws) ==
    \E h \in HandleIds : handles[h].promise = "pending" /\ handles[h].by = ws

\* wss.on('connection'): a session opens and installs its callbacks.  The
\* name ws of a closed session is given to a new one once no pending connect
\* call refers to the old one.
WsConnection(ws) ==
    /\ clients[ws] = "NONE"
    /\ ~Awaiting(ws)
    /\ LET m == [Host EXCEPT !.clients[ws] = "OPEN"]
       IN  SetHost([sendToClient(m, ws, ConnectionStatus(isPortConnected(m)))
                       EXCEPT !.messageCallback = ws,
                              !.stateCallback = ws,
                              !.positionCallback = ws])
    /\ devUnchanged

\* ws.on('close')
WsClose(ws) ==
    /\ clients[ws] = "OPEN"
    /\ SetHost([Host EXCEPT !.clients[ws] = "NONE"])
    /\ devUnchanged

\* 'connect_to_port' up to its await
WsConnectToPort(ws, portPath) ==
    /\ clients[ws] = "OPEN"
    /\ HasFreeHandle
    /\ SetHost(connect(Host, portPath, ws))
    /\ devUnchanged

\* POST /api/direct-connect up to its await
DirectConnect(portPath) ==
    /\ HasFreeHandle
    /\ SetHost(connect(Host, portPath, 0))
    /\ devUnchanged

\* 'disconnect_from_port'
WsDisconnectFromPort(ws) ==
    /\ clients[ws] = "OPEN"
    /\ LET m == disconnect(Host)
       IN  SetHost(sendToClient(sendToClient(sendToClient(m, ws,
                       DisconnectedEvents[1]), ws,
                       DisconnectedEvents[2]), ws,
                       DisconnectedEvents[3]))
    /\ devUnchanged

\* POST /api/direct-disconnect
DirectDisconnect ==
    /\ SetHost(Broadcast(disconnect(Host), DisconnectedEvents, 1))
    /\ devUnchanged

\* 'send_command'
SendCommandMessage(ws, command) ==
    /\ clients[ws] = "OPEN"
    /\ IF ~isPortConnected(Host)
       THEN LET m == sendToClient(sendToClient(Host, ws,
                         ErrorEvent("Not connected to device")), ws,
                         LogMessage("error", Text("Not connected to device")))
            IN  IF replit /\ build = "serial-clean"
                THEN SetHost(sendToClient(m, ws, LogMessage("info", HardwareNote)))
                ELSE SetHost(m)
       ELSE SetHost(sendCommand(Host, command))
    /\ devUnchanged

\* the same, while fewer than MaxWrites writes are in flight
WsSendCommand(ws, command) ==
    /\ Len(pendingWrites) < MaxWrites
    /\ SendCommandMessage(ws, command)

\* POST /api/direct-command
DirectCommand(command) ==
    /\ Len(pendingWrites) < MaxWrites
    /\ IF replit /\ build = "serial"
       THEN \* routes.ts: "force connected state for command in demo mode"
            SetHost(Broadcast(sendCommand([Host EXCEPT !.isConnected = TRUE], command),
                              <<LogMessage("sent", Text("Command sent"))>>, 1))
       ELSE IF ~isPortConnected(Host) THEN SetHost(Host)
       ELSE SetHost(sendCommand(Host, command))
    /\ devUnchanged

\* ---- completions and events of the serial ports ----
\* port.open calls back, with or without an error
OpenDone(h, err) ==
    /\ handles[h].state = "opening"
    /\ SetHost(OpenCallback(Host, h, err))
    /\ devUnchanged

\* the open-timeout of the connect call that created h fires.  close() of a
\* port that is not open changes nothing of it and reports "Port is not
\* open" to the port's 'error' listeners.
OpenTimeout(h) ==
    /\ handles[h].openTimer
    /\ LET m == [Host EXCEPT !.handles[h].openTimer = FALSE]
       IN  IF m.port # 0 /\ ~IsOpen(m.handles, m.port)
           THEN SetHost(OnErrorTimes(Settle(m, h, "rejected"),
                                     m.handles[m.port].errorListeners))
           ELSE SetHost(m)
    /\ devUnchanged

\* port.close calls back; with an error the port stays open, without one
\* the port is closed and nothing of it is called again
CloseDone(h, err) ==
    /\ handles[h].state = "closing"
    /\ SetHost([Host EXCEPT !.handles[h] =
                    IF err THEN [@ EXCEPT !.state = "open"] ELSE ClosedHandle])
    /\ devUnchanged

\* the port emits 'error'
PortError(h) ==
    /\ handles[h].state = "open"
    /\ handles[h].errorListeners > 0
    /\ SetHost(OnErrorTimes(Host, handles[h].errorListeners))
    /\ devUnchanged

\* a complete line arrives on the port and goes through each parser piped
\* from it
DataLine(h, line) ==
    /\ handles[h].state \in {"open", "closing"}
    /\ handles[h].parsers > 0
    /\ SetHost(OnDataTimes(Host, line, handles[h].parsers))
    /\ devUnchanged

\* port.write calls back
WriteDone(err) ==
    /\ pendingWrites # <<>>
    /\ SetHost(WriteCallback([Host EXCEPT !.pendingWrites = Tail(@),
                                          !.staleWrites = IF @ > 0 THEN @ - 1 ELSE 0],
                             Head(pendingWrites), err))
    /\ devUnchanged

\* 'refresh_ports': the list goes to the session that asked.  serial-clean.ts
\* in a Replit environment does not call SerialPort.list().
WsRefreshPorts(ws, listing) ==
    /\ clients[ws] = "OPEN"
    /\ LET m == listPorts(Host, listing)
       IN  SetHost(sendToClient(m, ws, AvailablePorts(m.returned[1])))
    /\ enumerated' = IF build = "serial-clean" /\ replit THEN NotListed ELSE listing
    /\ UNCHANGED devVars

\* GET /api/ports: the list is the response
GetPorts(listing) ==
    /\ SetHost(listPorts(Host, listing))
    /\ enumerated' = IF build = "serial-clean" /\ replit THEN NotListed ELSE listing
    /\ UNCHANGED devVars

\* ------------------------------------------------------------------------
\* MemStorage: the settings records
\* ------------------------------------------------------------------------
\* storage.ts holds two copies of the class: the first stores
\* insertSettings.isDefault === true, the second stores the value as given
StorageBuilds == {"strict", "spread"}

\* what a request body may give as isDefault: true, false, nothing, or a
\* value that is truthy without being true
Flags == {"true", "false", "undefined", "'yes'"}

Truthy(flag) == flag \in {"true", "'yes'"}

PlotterSettings(id, isDefault) == [id |-> id, isDefault |-> isDefault]

\* for (const [key, setting] of entries) if (setting.isDefault)
\*     this.settings.set(key, { ...setting, isDefault: false })
ClearDefaults(records) ==
    [i \in 1..Len(records) |->
        IF Truthy(records[i].isDefault)
        THEN [records[i] EXCEPT !.isDefault = "false"] ELSE records[i]]

\* a createPlotterSettings that leaves the other records as they are
createPlotterSettingsKeep(b, store, isDefault) ==
    LET stored == IF b = "strict"
                  THEN (IF isDefault = "true" THEN "true" ELSE "false")
                  ELSE isDefault
    IN  [settings |-> Append(store.settings,
                             PlotterSettings(store.settingsCurrentId, stored)),
         settingsCurrentId |-> store.settingsCurrentId + 1]

\* MemStorage.createPlotterSettings of the deployed copy b
createPlotterSettings(b, store, isDefault) ==
    LET stored == IF b = "strict"
                  THEN (IF isDefault = "true" THEN "true" ELSE "false")
                  ELSE isDefault
        others == IF Truthy(stored) THEN ClearDefaults(store.settings)
                  ELSE store.settings
    IN  [settings |-> Append(others,
                             PlotterSettings(store.settingsCurrentId, stored)),
         settingsCurrentId |-> store.settingsCurrentId + 1]

\* the constructor: empty maps, ids from 1, and the seeded default record
NewStorage(b) ==
    createPlotterSettings(b, [settings |-> <<>>, settingsCurrentId |-> 1], "true")

StorageInit(b) ==
    /\ storageBuild = b
    /\ settings = NewStorage(b).settings
    /\ settingsCurrentId = NewStorage(b).settingsCurrentId

\* POST /api/settings: createPlotterSettings(req.body)
PostSettings(isDefault) ==
    /\ settingsCurrentId <= MaxSettings + 1
    /\ LET store == createPlotterSettings(storageBuild,
                        [settings |-> settings,
                         settingsCurrentId |-> settingsCurrentId], isDefault)
       IN  /\ settings' = store.settings
           /\ settingsCurrentId' = store.settingsCurrentId
    /\ UNCHANGED storageBuild
    /\ SetManager(Host)
    /\ devUnchanged

\* GET /api/settings: getAllPlotterSettings(); nothing is written
GetSettings ==
    /\ UNCHANGED <<storageBuild, settings, settingsCurrentId>>
    /\ SetManager(Return(Host, settings))
    /\ devUnchanged

SettingsNext ==
    \/ \E isDefault \in Flags : PostSettings(isDefault)
    \/ GetSettings

ManagerInit ==
    /\ StorageInit("strict")
    /\ build \in Builds
    /\ replit \in BOOLEAN
    /\ nodeEnv = "production"
    /\ enumerated = NotListed
    /\ port = 0
    /\ parser = 0
    /\ isConnected = FALSE
    /\ messageCallback = 0
    /\ stateCallback = 0
    /\ positionCallback = 0
    /\ handles = [h \in HandleIds |-> NoHandle]
    /\ pendingWrites = <<>>
    /\ clients = [ws \in Observers |-> "NONE"]
    /\ emitted = <<>>
    /\ delivered = <<>>
    /\ ops = <<>>
    /\ returned = <<>>
    /\ staleWrites = 0
    /\ staleTimers = {}

\* no device has been heard of yet
HostInit == ManagerInit /\ mirror = "DISCONNECTED"

\* the state after the sessions 1..k have opened, one after the other
HostSessionsIn(env) ==
    /\ StorageInit("strict")
    /\ build \in Builds
    /\ replit \in BOOLEAN
    /\ nodeEnv = env
    /\ enumerated = NotListed
    /\ port = 0
    /\ parser = 0
    /\ isConnected = FALSE
    /\ handles = [h \in HandleIds |-> NoHandle]
    /\ pendingWrites = <<>>
    /\ \E k \in 0..MaxObservers :
          /\ clients = [ws \in Observers |-> IF ws <= k THEN "OPEN" ELSE "NONE"]
          /\ messageCallback = k
          /\ stateCallback = k
          /\ positionCallback = k
          /\ delivered = IF k = 0 THEN <<>>
                         ELSE <<[to |-> k, event |-> ConnectionStatus(FALSE), src |-> 0]>>
    /\ emitted = <<>>
    /\ ops = <<>>
    /\ returned = <<>>
    /\ staleWrites = 0
    /\ staleTimers = {}
    /\ mirror = "DISCONNECTED"

\* NODE_ENV is read by listPorts only
HostInitSessions == HostSessionsIn("production")

HostInitPorts == \E env \in {"production", "development"} : HostSessionsIn(env)

\* sessions open and close
SessionNext ==
    \/ \E ws \in Observers : WsConnection(ws)
    \/ \E ws \in Observers : WsClose(ws)

\* the handlers and completions that open and close connections
ConnectionNext ==
    \/ \E ws \in Observers, portPath \in Paths : WsConnectToPort(ws, portPath)
    \/ \E portPath \in Paths : DirectConnect(portPath)
    \/ \E ws \in Observers : WsDisconnectFromPort(ws)
    \/ DirectDisconnect
    \/ \E h \in HandleIds, err \in BOOLEAN : OpenDone(h, err)
    \/ \E h \in HandleIds : OpenTimeout(h)
    \/ \E h \in HandleIds, err \in BOOLEAN : CloseDone(h, err)
    \/ \E h \in HandleIds : PortError(h)

\* the commands written to the device and the lines read from it
TrafficNext ==
    \/ \E ws \in Observers, command \in HostCommands : WsSendCommand(ws, command)
    \/ \E command \in HostCommands : DirectCommand(command)
    \/ \E h \in HandleIds, line \in HostLines : DataLine(h, line)
    \/ \E err \in BOOLEAN : WriteDone(err)

HostNext == SessionNext \/ ConnectionNext \/ TrafficNext

\* the device after setup() and the server after construction
Init == DeviceInit /\ HostInit

\* the firmware runs the same under every host: one host is enough
InitDevice == DeviceInit /\ HostInit /\ build = "serial" /\ ~replit

SpecDevice == InitDevice /\ [][DeviceNext]_vars

SpecHost == Init /\ [][HostNext]_vars

\* the device after setup() and the server with some sessions open
InitSessions == DeviceInit /\ HostInitSessions

\* connections opened and closed while the open sessions stay
SpecConnection == InitSessions /\ [][ConnectionNext]_vars

\* commands sent over connections made and dropped by the REST endpoints
CommandNext ==
    \/ \E portPath \in Paths : DirectConnect(portPath)
    \/ DirectDisconnect
    \/ \E h \in HandleIds, err \in BOOLEAN : OpenDone(h, err)
    \/ \E h \in HandleIds, err \in BOOLEAN : CloseDone(h, err)
    \/ \E ws \in Observers, command \in HostCommands : WsSendCommand(ws, command)
    \/ \E command \in HostCommands : DirectCommand(command)
    \/ \E err \in BOOLEAN : WriteDone(err)

SpecCommand == InitSessions /\ [][CommandNext]_vars

\* the server after construction, with either copy of MemStorage
HostInitSettings ==
    /\ \E b \in StorageBuilds : StorageInit(b)
    /\ build \in Builds
    /\ replit = FALSE
    /\ nodeEnv = "production"
    /\ enumerated = NotListed
    /\ port = 0
    /\ parser = 0
    /\ isConnected = FALSE
    /\ messageCallback = 0
    /\ stateCallback = 0
    /\ positionCallback = 0
    /\ handles = [h \in HandleIds |-> NoHandle]
    /\ pendingWrites = <<>>
    /\ clients = [ws \in Observers |-> "NONE"]
    /\ emitted = <<>>
    /\ delivered = <<>>
    /\ ops = <<>>
    /\ returned = <<>>
    /\ staleWrites = 0
    /\ staleTimers = {}
    /\ mirror = "DISCONNECTED"

InitSettings == DeviceInit /\ HostInitSettings

SpecSettings == InitSettings /\ [][SettingsNext]_vars

\* the server with some sessions open, in either NODE_ENV
InitPorts == DeviceInit /\ HostInitPorts

\* the ports are listed again and again
PortsNext ==
    \/ \E ws \in Observers, listing \in Listings : WsRefreshPorts(ws, listing)
    \/ \E listing \in Listings : GetPorts(listing)

SpecPorts == InitPorts /\ [][PortsNext]_vars

\* ------------------------------------------------------------------------
\* Lines of any kind arrive on a connected port
\* ------------------------------------------------------------------------
\* a status line as the firmware prints it, with four numeric fields given
\* as text
StatusText(angle, radius, x, y) ==
    Chars(<<"Status - Polar:", " ", "Angle", "=">> \o angle
              \o <<" deg, ", "Radius", "=">> \o radius
              \o <<" mm; Cartesian: ", "X", "=">> \o x
              \o <<" mm, ", "Y", "=">> \o y \o <<" mm", "\r">>)

InboundLines ==
    { Chars(<<"Robust Polar Plotter Firmware Starting...", "\r">>),
      Chars(<<"hello", " ", "4", "2", "\r">>),
      Delimited(ErrUnknown),
      Delimited([t |-> "Status - Polar: Angle=", angle |-> 45 * FX,
                 radius |-> 50 * FX, x |-> 3536, y |-> 0 - 3536]),
      StatusText(<<".">>, <<"5", "0", ".", "0", "0">>, <<"-">>,
                 <<"1", ".", "2", ".", "3">>),
      StatusText(<<"a", "b", "c">>, <<"5", "0">>, <<"1">>, <<"2">>) }

ReadNext ==
    \/ \E portPath \in Paths : DirectConnect(portPath)
    \/ \E h \in HandleIds, err \in BOOLEAN : OpenDone(h, err)
    \/ \E h \in HandleIds, line \in InboundLines : DataLine(h, line)

SpecRead == InitSessions /\ [][ReadNext]_vars

\* ------------------------------------------------------------------------
\* The host and the device on the two ends of one serial link
\* ------------------------------------------------------------------------
\* one command of each variant of the vocabulary, and numbers with a sign
\* and with a fraction
Commands ==
    { [type |-> "MOVE", angle |-> 30 * FX, radius |-> 50 * FX],
      [type |-> "MOVE", angle |-> 20050, radius |-> 2025],
      [type |-> "X", value |-> 5 * FX],
      [type |-> "X", value |-> 0 - 550],
      [type |-> "Y", value |-> 0 - 5],
      [type |-> "SPEED", angularMax |-> SpeedP[1], angularAccel |-> SpeedP[2],
                         radialMax |-> SpeedP[3], radialAccel |-> 25050],
      [type |-> "DRAW"], [type |-> "SQUARE"], [type |-> "AREA"],
      [type |-> "STATUS"], [type |-> "TEST"], [type |-> "HOME"],
      [type |-> "ESTOP"], [type |-> "RESET"] }

\* the one connection of a run is requested
WireConnect(portPath) ==
    /\ \A h \in HandleIds : handles[h] = NoHandle
    /\ DirectConnect(portPath)

\* a session sends a command, as long as lines may still cross the link
WireSend(ws, command) ==
    /\ linesReceived + Len(pendingWrites) < MaxSent
    /\ WsSendCommand(ws, command)

\* the write of the oldest line completes; a line written without error
\* arrives in the device's receive buffer, where parseSerialCommand reads it
WireWrite(err) ==
    /\ pendingWrites # <<>>
    /\ ~err => linesReceived < MaxSent /\ Len(serialIn) < MaxPending
    /\ SetHost(WriteCallback([Host EXCEPT !.pendingWrites = Tail(@),
                                          !.staleWrites = IF @ > 0 THEN @ - 1 ELSE 0],
                             Head(pendingWrites), err))
    /\ enumerated' = NotListed
    /\ serialIn' = IF err THEN serialIn
                   ELSE Append(serialIn, Tokenise(Written(Head(pendingWrites))))
    /\ linesReceived' = IF err THEN linesReceived ELSE linesReceived + 1
    /\ UNCHANGED estopPin
    /\ fwUnchanged

\* Serial.print returns once the characters are on their way: the firmware
\* goes on when the lines of its last step have left
WireLoopCheckPin == serialOut = <<>> /\ LoopCheckPin

WireLoopSerial == serialOut = <<>> /\ LoopSerial

WireRoutineStep == serialOut = <<>> /\ RoutineStep

linkUnchanged ==
    UNCHANGED <<plotterState, currentAngleDeg, currentRadiusMM,
                currentMaxSpeedAngular, currentAccelAngular,
                currentMaxSpeedRadial, currentAccelRadial,
                stepperAngular, stepperRadial, devPc, routine, stepped,
                estopPin, serialIn, linesReceived>>

\* the oldest printed line reaches the parser piped to the open port h
WireRead(h) ==
    /\ serialOut # <<>>
    /\ handles[h].state \in {"open", "closing"}
    /\ handles[h].parsers > 0
    /\ SetHost(OnDataTimes(Host, Delimited(Head(serialOut)), handles[h].parsers))
    /\ enumerated' = NotListed
    /\ serialOut' = Tail(serialOut)
    /\ linkUnchanged

\* no port is open: what the device prints is read by nobody
WireLost ==
    /\ serialOut # <<>>
    /\ \A h \in HandleIds : handles[h].state \notin {"open", "closing"}
    /\ serialOut' = <<>>
    /\ linkUnchanged
    /\ UNCHANGED hostVars

WireNext ==
    \/ \E portPath \in Paths : WireConnect(portPath)
    \/ \E h \in HandleIds, err \in BOOLEAN : OpenDone(h, err)
    \/ \E ws \in Observers, command \in Commands : WireSend(ws, command)
    \/ \E err \in BOOLEAN : WireWrite(err)
    \/ WireLoopCheckPin
    \/ WireLoopSerial
    \/ WireRoutineStep
    \/ \E h \in HandleIds : WireRead(h)
    \/ WireLost

\* the device after setup() and the serial.ts server with some sessions open
InitWire == DeviceInit /\ HostInitSessions /\ build = "serial" /\ ~replit

SpecWire == InitWire /\ [][WireNext]_vars

\* port.write calls its callback once the write has completed or failed
WriteFairness == WF_pendingWrites(\E err \in BOOLEAN : WriteDone(err))

SpecCommandFair == SpecCommand /\ WriteFairness

\* ========================================================================
\* Properties of the firmware (SpecDevice)
\* ========================================================================
Printed(out, line) == \E i \in 1..Len(out) : out[i] = line

\* the step in which loop() takes a line of one of the commands cmds from
\* the serial buffer and parses it
Parsing(cmds) ==
    /\ devPc = "serial"
    /\ serialIn # <<>>
    /\ Head(serialIn).cmd \in cmds
    /\ serialIn' = Tail(serialIn)

\* the target a MOVE with both fields, or a TEST, hands to moveToPolar
MoveTarget ==
    IF Head(serialIn).cmd = "MOVE"
    THEN [angleDeg |-> Head(serialIn).args[1], radiusMM |-> Head(serialIn).args[2]]
    ELSE [angleDeg |-> currentAngleDeg + 10 * FX, radiusMM |-> currentRadiusMM + 10 * FX]

CallsMoveToPolar ==
    /\ Parsing({"MOVE", "TEST"})
    /\ Head(serialIn).cmd = "MOVE" => Len(Head(serialIn).args) >= 2

OutsideLimits(t) ==
    \/ t.angleDeg < 0 \/ t.angleDeg > 360 * FX
    \/ t.radiusMM < 0 \/ t.radiusMM > MAX_RADIUS

PositionUnchanged == UNCHANGED <<currentAngleDeg, currentRadiusMM>>

TargetsUnchanged ==
    /\ stepperAngular'.targetPos = stepperAngular.targetPos
    /\ stepperRadial'.targetPos = stepperRadial.targetPos

ProfileUnchanged ==
    /\ UNCHANGED <<currentMaxSpeedAngular, currentAccelAngular,
                   currentMaxSpeedRadial, currentAccelRadial>>
    /\ stepperAngular'.maxSpeed = stepperAngular.maxSpeed
    /\ stepperAngular'.acceleration = stepperAngular.acceleration
    /\ stepperRadial'.maxSpeed = stepperRadial.maxSpeed
    /\ stepperRadial'.acceleration = stepperRadial.acceleration

\* C3: a moveToPolar whose angle is outside [0, 360] or whose radius is
\* outside [0, MAX_RADIUS] prints the soft-limit error line, gives neither
\* stepper a target, leaves currentAngleDeg and currentRadiusMM as they were
\* and announces no move (nothing is clamped).
C3_SoftLimitRejected ==
    [][ (CallsMoveToPolar /\ OutsideLimits(MoveTarget))
        => /\ Printed(serialOut', ErrSoftLimit)
           /\ \A i \in 1..Len(serialOut') : serialOut'[i].t # "Moving to: Angle"
           /\ PositionUnchanged
           /\ TargetsUnchanged ]_vars

\* a rejected TEST: the position stands at the edge of the area after AREA
C3_Witness ==
    /\ Printed(serialOut, ErrSoftLimit)
    /\ currentRadiusMM = MAX_RADIUS
    /\ devPc = "pin"

\* C4: while plotterState is STATE_ERROR a MOVE, X, Y, TEST, DRAW, SQUARE,
\* AREA, HOME or SPEED line changes neither the position, nor the steppers'
\* targets, nor the speed profile.
C4_RefusedInError ==
    [][ (plotterState = "STATE_ERROR"
         /\ Parsing({"MOVE", "X", "Y", "TEST", "DRAW", "SQUARE", "AREA",
                     "HOME", "SPEED"}))
        => (PositionUnchanged /\ TargetsUnchanged /\ ProfileUnchanged) ]_vars

\* C5: plotterState leaves STATE_ERROR only for STATE_READY and only in the
\* step that parses a RESET line.
C5_OnlyResetLeavesError ==
    [][ (plotterState = "STATE_ERROR" /\ plotterState' # "STATE_ERROR")
        => (plotterState' = "STATE_READY" /\ Parsing({"RESET"})) ]_vars

C5_Witness ==
    /\ Printed(serialOut, ResetLine)
    /\ plotterState = "STATE_READY"

\* C6: no stepper has run in a step that ends with plotterState STATE_ERROR.
C6_NoStepInError == ~(plotterState = "STATE_ERROR" /\ stepped)

\* C7: (a) parsing ESTOP, (b) loop() reading the emergency-stop pin LOW and
\* (c) the firmware printing an "Error:" line each end with plotterState
\* STATE_ERROR.
C7_AllRoadsToError ==
    [][ /\ Parsing({"ESTOP"}) => plotterState' = "STATE_ERROR"
        /\ (devPc = "pin" /\ devPc' = "serial" /\ estopPin = "LOW")
           => plotterState' = "STATE_ERROR"
        /\ (serialOut' # serialOut
            /\ \E i \in 1..Len(serialOut') : IsErrorLine(serialOut'[i]))
           => plotterState' = "STATE_ERROR" ]_vars

InHoming == devPc = "wait" /\ routine.name = "HOME"

\* C8: outside homePlotter both steppers' maximum speed and acceleration are
\* the profile set last (by SPEED, else at boot): homing leaves behind
\* neither its own 100/50 nor the boot values.
C8_HomingRestoresProfile ==
    ~InHoming =>
        /\ stepperAngular.maxSpeed = currentMaxSpeedAngular
        /\ stepperAngular.acceleration = currentAccelAngular
        /\ stepperRadial.maxSpeed = currentMaxSpeedRadial
        /\ stepperRadial.acceleration = currentAccelRadial

\* HOME has returned after a SPEED set the profile SpeedP
C8_Witness ==
    /\ Printed(serialOut, DoneLine("HOME"))
    /\ devPc = "pin"
    /\ <<stepperAngular.maxSpeed, stepperAngular.acceleration,
         stepperRadial.maxSpeed, stepperRadial.acceleration>> = SpeedP

\* ========================================================================
\* Properties of the connection manager and the routes (SpecHost, SpecConnection)
\* ========================================================================
\* what the last handler run emitted, delivered and called
Received(ws, i) ==
    Cardinality({j \in 1..Len(delivered) :
                    delivered[j].to = ws /\ delivered[j].src = i})

ReceivedEvent(ws, event) ==
    Cardinality({j \in 1..Len(delivered) :
                    delivered[j].to = ws /\ delivered[j].event = event})

Calls(method) == Cardinality({i \in 1..Len(ops) : ops[i] = method})

\* an event parsed from a line of the device
DeviceEvent(e) ==
    \/ e.ev = "plotter_position"
    \/ e.ev = "plotter_state" /\ e.state # "DISCONNECTED"
    \/ e.ev = "log_message" /\ e.type = "received"

\* C1: every event the manager emits for a line of the device reaches every
\* open session exactly once.
C1_FanOut ==
    \A i \in 1..Len(emitted) :
        DeviceEvent(emitted[i]) =>
            \A ws \in Observers : clients[ws] = "OPEN" => Received(ws, i) = 1

\* C2: at most one serial port is open or being opened.
C2_OneHandle ==
    Cardinality({h \in HandleIds : handles[h].state \in {"opening", "open"}}) <= 1

OnlyDisconnectCalled ==
    ops # <<>> /\ \A i \in 1..Len(ops) : ops[i] = "disconnect"

Disconnected ==
    /\ port = 0
    /\ parser = 0
    /\ ~isConnected
    /\ ~isPortConnected(Host)

\* C9: when a handler that calls only disconnect() has run, port and parser
\* are null, isConnected is false and isPortConnected() is false; run from
\* that state again it leaves them so and closes no port; and the outcome of
\* the close, error or not, does not bring the connection state back.
C9_DisconnectIdempotent ==
    /\ [](OnlyDisconnectCalled => Disconnected)
    /\ [][ (Disconnected /\ OnlyDisconnectCalled')
           => (Disconnected'
               /\ \A h \in HandleIds : handles'[h].state = handles[h].state) ]_vars
    /\ [][ (\E h \in HandleIds : handles[h].state = "closing"
                                 /\ handles'[h].state # "closing")
           => UNCHANGED <<port, parser, isConnected>> ]_vars

\* the port's two 'error' listeners have each called disconnect(): the first
\* closed the port, the second found none
C9_Witness ==
    /\ ops = <<"disconnect", "disconnect">>
    /\ \E h \in HandleIds : handles[h].state = "closing"
    /\ Disconnected

\* C10: each open session receives the DISCONNECTED state event once for
\* every call of disconnect().
C10_DisconnectedOncePerCall ==
    \A ws \in Observers :
        clients[ws] = "OPEN" =>
            ReceivedEvent(ws, PlotterStateEvent("DISCONNECTED")) = Calls("disconnect")


\* ========================================================================
\* Properties of sendCommand (SpecCommand)
\* ========================================================================
\* the step called the method
CalledInStep(method) == \E i \in 1..Len(ops') : ops'[i] = method

PortIsOpen == port # 0 /\ IsOpen(handles, port)

\* sendCommand, called on the state as it is, with no connection open
RejectsAsMethod ==
    \A command \in HostCommands :
        LET m == sendCommand(Host, command)
        IN  ~(isConnected /\ PortIsOpen) =>
                /\ m.returned = <<FALSE>>
                /\ m.pendingWrites = pendingWrites
                /\ m.emitted = <<>>
                /\ m.isConnected = isConnected
                /\ m.port = port
                /\ m.parser = parser
                /\ m.handles = handles

\* C11: a sendCommand called while isConnected is false, or the port is
\* null or not open, returns false, hands nothing to the port and leaves
\* port, parser, the SerialPort objects and isConnected as they were.
C11_RejectsWhenNotConnected ==
    [][ /\ RejectsAsMethod
        /\ (CalledInStep("sendCommand") /\ ~PortIsOpen) =>
               /\ returned' = <<FALSE>>
               /\ pendingWrites' = pendingWrites
               /\ \A i \in 1..Len(emitted') : emitted'[i].ev # "log_message"
               /\ UNCHANGED <<port, parser, handles>> ]_vars

\* a route has called sendCommand without an open port, and it refused
C11_Witness ==
    /\ ops = <<"sendCommand">>
    /\ returned = <<FALSE>>
    /\ ~PortIsOpen
    /\ pendingWrites = <<>>


\* the log events of a write: Sent, or the Error of a failed write
SentEvent(e) == e.ev = "log_message" /\ e.type = "sent"
WriteErrorEvent(e) == e = LogMessage("error", Text("Failed to send command"))

WriteEvents(em) ==
    Cardinality({i \in 1..Len(em) : SentEvent(em[i]) \/ WriteErrorEvent(em[i])})

\* the step accepted a command: sendCommand returned true and the encoded
\* line is with the port
Accepted ==
    /\ ops' = <<"sendCommand", "port.write">>
    /\ returned' = <<TRUE>>
    /\ Len(pendingWrites') = Len(pendingWrites) + 1
    /\ SubSeq(pendingWrites', 1, Len(pendingWrites)) = pendingWrites
    /\ \E command \in HostCommands :
           pendingWrites'[Len(pendingWrites')] = Encode(command)

\* the step completed the oldest write and reported it once
Completed ==
    /\ pendingWrites # <<>>
    /\ pendingWrites' = Tail(pendingWrites)
    /\ \/ emitted' = <<LogMessage("sent", Head(pendingWrites))>>
       \/ emitted' = <<LogMessage("error", Text("Failed to send command"))>>

HeldPortOpened == port # 0 /\ handles[port].state \in {"open", "closing"}

\* C13: isConnected is true only while the manager holds a port whose open
\* has completed without error.
C13_ConnectedOnlyAfterOpen == isConnected => HeldPortOpened


\* the open-timeout of handle h ran out in this step before the open of h
\* completed without error
TimedOut(h) ==
    /\ handles[h].openTimer
    /\ ~handles'[h].openTimer
    /\ handles[h].state = "opening"
    /\ handles'[h].state # "open"

\* C14: when the open-timeout of a connect call runs out before the open
\* has completed, the handle of that call is closed and the call fails.
C14_TimeoutClosesAndFails ==
    [][ \A h \in HandleIds :
            TimedOut(h) =>
                /\ handles'[h].state \in {"closing", "closed"}
                /\ handles'[h].promise = "settled" ]_vars


\* the open-timeout of handle h fired in this step: the timer is gone and
\* the open of h has not completed
TimerFired(h) ==
    /\ handles[h].openTimer
    /\ ~handles'[h].openTimer
    /\ handles[h].state = "opening"
    /\ handles'[h].state = "opening"

\* the step changed nothing but the timer of h
WithoutEffect(h) ==
    /\ handles' = [handles EXCEPT ![h].openTimer = FALSE]
    /\ emitted' = <<>>
    /\ delivered' = <<>>
    /\ UNCHANGED <<port, parser, isConnected, pendingWrites>>

\* the oldest write in flight completed in this step
WriteCompleted == pendingWrites # <<>> /\ pendingWrites' = Tail(pendingWrites)

\* C15: an open-timeout that was pending when disconnect() was called does
\* nothing when it fires later, and a write that was in flight when
\* disconnect() was called produces no Sent event.
C15_DisconnectCancels ==
    [][ /\ \A h \in staleTimers : TimerFired(h) => WithoutEffect(h)
        /\ (staleWrites > 0 /\ WriteCompleted) =>
               \A i \in 1..Len(emitted') : ~SentEvent(emitted'[i]) ]_vars


\* ========================================================================
\* Properties of listPorts (SpecPorts)
\* ========================================================================
\* the list the last step's call of listPorts returned
Result == returned[1]

ListPortsCalled == ops = <<"listPorts">> /\ Len(returned) = 1

\* a Warning log entry went out to the observers
WarningSignalled ==
    \E i \in 1..Len(emitted) :
        emitted[i].ev = "log_message" /\ emitted[i].type \in {"warning", "error"}

\* C16: when the enumeration fails, listPorts returns the empty list and
\* signals a warning event.
C16_EmptyListAndWarning ==
    (ListPortsCalled /\ enumerated.called /\ ~enumerated.ok) =>
        (Result = <<>> /\ WarningSignalled)


\* the ranks of the claim: Arduino-like, FTDI-like, CH340-like, others
ArduinoLike(p) == IF build = "serial" THEN IsArduino(p) ELSE IsArduinoClean(p)

Rank(p) ==
    IF ArduinoLike(p) THEN 0
    ELSE IF IsFTDI(p) THEN 1
    ELSE IF IsCH340(p) THEN 2
    ELSE 3

PathsOf(l) == {l[i].path : i \in 1..Len(l)}

IsPermutationOf(out, in) == Len(out) = Len(in) /\ PathsOf(out) = PathsOf(in)

Position(out, p) == CHOOSE k \in 1..Len(out) : out[k].path = p.path

RankedAndStable(out, in) ==
    /\ \A i, j \in 1..Len(out) : i < j => Rank(out[i]) <= Rank(out[j])
    /\ \A i, j \in 1..Len(in) :
           (i < j /\ Rank(in[i]) = Rank(in[j])) => Position(out, in[i]) < Position(out, in[j])

\* C17: the list returned is a permutation of the enumerated ports, in the
\* order Arduino-like, FTDI-like, CH340-like, others, and ports of one rank
\* keep their enumeration order.
C17_RankedStablePermutation ==
    (ListPortsCalled /\ enumerated.called /\ enumerated.ok) =>
        /\ IsPermutationOf(Result, enumerated.ports)
        /\ RankedAndStable(Result, enumerated.ports)


\* ------------------------------------------------------------------------
\* Commands across the link
\* ------------------------------------------------------------------------
\* the field values of a command, in the order of its type's declaration
FieldsOf(command) ==
    IF command.type = "MOVE" THEN <<command.angle, command.radius>>
    ELSE IF command.type \in {"X", "Y"} THEN <<command.value>>
    ELSE IF command.type = "SPEED"
         THEN <<command.angularMax, command.angularAccel,
                command.radialMax, command.radialAccel>>
    ELSE <<>>

\* what the branch of parseSerialCommand for the command's variant does,
\* called with the command's own field values, after the echo
Handler(d, command) ==
    CASE command.type = "MOVE" -> moveToPolar(d, command.angle, command.radius)
      [] command.type = "X" -> moveRelativeXY(d, command.value, 0)
      [] command.type = "Y" -> moveRelativeXY(d, 0, command.value)
      [] command.type = "STATUS" -> printStatus(d)
      [] command.type = "TEST" -> TestCommand(d)
      [] command.type = "SPEED"
           -> adjustSpeed(d, command.angularMax, command.angularAccel,
                          command.radialMax, command.radialAccel)
      [] command.type = "ESTOP" -> EstopCommand(d)
      [] command.type = "RESET" -> ResetCommand(d)
      [] OTHER -> d

\* the line of the command leaves the host and arrives at the device
Crossing(command) ==
    /\ pendingWrites # <<>>
    /\ Head(pendingWrites) = Encode(command)
    /\ linesReceived' = linesReceived + 1

\* the line written ends in its only newline, and the device finds in it
\* the command's word and field values
Arrives(command) ==
    LET written == Written(Head(pendingWrites))
    IN  /\ {i \in 1..Len(written) : written[i] = "\n"} = {Len(written)}
        /\ serialIn' = Append(serialIn, Line(command.type, FieldsOf(command)))

\* loop() reads the line of the command from the receive buffer
Reading(command) ==
    /\ devPc = "serial"
    /\ serialIn # <<>>
    /\ Head(serialIn) = Line(command.type, FieldsOf(command))
    /\ serialIn' = Tail(serialIn)

HandledAs(command) ==
    LET h == Handler(Println(Dev, ReceivedLine(Head(serialIn))), command)
    IN  IF command.type \in {"DRAW", "SQUARE", "AREA", "HOME"}
        THEN devPc' = "wait" /\ routine'.name = command.type
        ELSE /\ serialOut' = h.out
             /\ plotterState' = h.plotterState
             /\ currentAngleDeg' = h.currentAngleDeg
             /\ currentRadiusMM' = h.currentRadiusMM
             /\ currentMaxSpeedAngular' = h.currentMaxSpeedAngular
             /\ currentAccelAngular' = h.currentAccelAngular
             /\ currentMaxSpeedRadial' = h.currentMaxSpeedRadial
             /\ currentAccelRadial' = h.currentAccelRadial
             /\ stepperAngular'.targetPos = h.stepperAngular.targetPos
             /\ stepperRadial'.targetPos = h.stepperRadial.targetPos

\* C18: for every command of the vocabulary, the line the host writes for it
\* ends in exactly one newline and reaches the device as the command's word
\* with the command's field values, and loop() hands that line to the branch
\* of the same variant, which acts on those values.
C18_RoundTrip ==
    [][\A command \in Commands :
           /\ Crossing(command) => Arrives(command)
           /\ Reading(command) => HandledAs(command)]_vars

\* a MOVE with fractions has crossed the link and set the device's target
C18_Witness ==
    /\ linesReceived = 1
    /\ serialIn = <<>>
    /\ currentAngleDeg = 20050
    /\ currentRadiusMM = 2025


\* ------------------------------------------------------------------------
\* Inbound lines the decoder does not expect
\* ------------------------------------------------------------------------
NoMarker(message) ==
    ~(HasError(message) \/ HasStateReady(message) \/ HasStateDrawing(message)
      \/ HasStatus(message) \/ HasMoving(message))

\* the characters a field may be written with
FieldChars == DigitSet \cup {".", "-", "+", "a", "b", "c"}

\* the text between a field's label and the unit that follows it
FieldAfter(message, label) ==
    LET at == {i \in 0..(Len(message) - Len(label)) :
                   SubSeq(message, i + 1, i + Len(label)) = label}
        first == CHOOSE i \in at : \A j \in at : i <= j
        rest == SubSeq(message, first + Len(label) + 1, Len(message))
    IN  IF at = {} THEN <<>> ELSE SubSeq(rest, 1, Run(rest, FieldChars))

\* a decimal literal and nothing else: a sign, digits, a point, digits
IsDecimal(str) ==
    LET s1 == IF str # <<>> /\ str[1] = "-" THEN Tail(str) ELSE str
        n == Run(s1, DigitSet)
        rest == SubSeq(s1, n + 1, Len(s1))
    IN  \/ n > 0 /\ rest = <<>>
        \/ /\ rest # <<>> /\ rest[1] = "."
           /\ Run(Tail(rest), DigitSet) = Len(rest) - 1
           /\ n + Len(rest) > 1

\* a status line one of whose four fields is no number
MalformedNumerics(message) ==
    /\ HasStatus(message)
    /\ \E label \in {"Angle", "Radius", "X", "Y"} :
           ~IsDecimal(FieldAfter(message, <<label, "=">>))

IsDeviceEvent(e) == e.ev \in {"plotter_state", "plotter_position"}

\* C19: a line that carries none of the markers, or a status line with a
\* malformed number, produces no state and no position event; the observer
\* registered gets it as a received log entry, and the parser stays attached
\* to the port for the lines that follow.
C19_ToleratesUnexpected ==
    [][\A h \in HandleIds, line \in InboundLines :
           LET message == trim(line.chars)
           IN  (/\ NoMarker(message) \/ MalformedNumerics(message)
                /\ DataLine(h, line))
               => /\ \A i \in 1..Len(emitted') : ~IsDeviceEvent(emitted'[i])
                  /\ messageCallback # 0
                       => \E i \in 1..Len(emitted') :
                              emitted'[i] = LogMessage("received", Chars(message))
                  /\ handles' = handles
                  /\ parser' = parser]_vars

\* the same for the lines without any marker only
C19_ToleratesUnmarked ==
    [][\A h \in HandleIds, line \in InboundLines :
           LET message == trim(line.chars)
           IN  (NoMarker(message) /\ DataLine(h, line))
               => /\ \A i \in 1..Len(emitted') : ~IsDeviceEvent(emitted'[i])
                  /\ messageCallback # 0
                       => \E i \in 1..Len(emitted') :
                              emitted'[i] = LogMessage("received", Chars(message))
                  /\ handles' = handles
                  /\ parser' = parser]_vars


\* ------------------------------------------------------------------------
\* STATUS from the session to the device and back
\* ------------------------------------------------------------------------
\* the line printStatus prints for the position the device holds
StatusLine ==
    [t |-> "Status - Polar: Angle=", angle |-> currentAngleDeg,
     radius |-> currentRadiusMM,
     x |-> polarToCartesian(currentAngleDeg, currentRadiusMM).x,
     y |-> polarToCartesian(currentAngleDeg, currentRadiusMM).y]

\* the report the host should make of the status line that is next to be read
StatusReport ==
    PlotterPosition([angle |-> currentAngleDeg, radius |-> currentRadiusMM,
                     x |-> Head(serialOut).x, y |-> Head(serialOut).y])

StatusIsNext ==
    serialOut # <<>> /\ Head(serialOut).t = "Status - Polar: Angle="

DeliveredTo(ws, event) ==
    \E i \in 1..Len(delivered') : delivered'[i].to = ws /\ delivered'[i].event = event

Defaults(records) == {i \in 1..Len(records) : Truthy(records[i].isDefault)}

\* createPlotterSettings has stored a record marked default
CreatedDefault ==
    /\ settingsCurrentId' = settingsCurrentId + 1
    /\ Len(settings') = Len(settings) + 1
    /\ settings'[Len(settings')].isDefault = "true"

\* C21: at most one stored settings record is marked default, in every state
\* from the seeded record on; and a createPlotterSettings call with
\* isDefault = true leaves the new record as the only one marked.
C21_OneDefault ==
    /\ [](Cardinality(Defaults(settings)) <= 1)
    /\ [][CreatedDefault => Defaults(settings') = {Len(settings')}]_vars

\* a record created as default has taken the mark from the seeded one, with
\* an unmarked record stored in between
C21_Witness ==
    /\ Len(settings) = 3
    /\ settings[1].isDefault = "false"
    /\ settings[2].isDefault = "false"
    /\ settings[3].isDefault = "true"


\* ------------------------------------------------------------------------
\* Errors and the sessions that hear of them
\* ------------------------------------------------------------------------
IsErrorReport(e) ==
    \/ e.ev = "error"
    \/ e.ev = "log_message" /\ e.type = "error"

\* the error events of the last step: those the manager emitted and those
\* the routes sent
ErrorReports ==
    {emitted'[i] : i \in {j \in 1..Len(emitted') : IsErrorReport(emitted'[j])}}
    \cup {delivered'[i].event :
             i \in {j \in 1..Len(delivered') : IsErrorReport(delivered'[j].event)}}

\* C22: every error event of a step (a failed connect, a command refused for
\* want of a connection, a failed write, a serial port error) is sent to
\* every session that is open, not only to the one whose request caused it.
C22_ErrorsToAll ==
    [][\A e \in ErrorReports : \A ws \in Observers :
           clients'[ws] = "OPEN"
           => \E i \in 1..Len(delivered') :
                  delivered'[i].to = ws /\ delivered'[i].event = e]_vars


\* ------------------------------------------------------------------------
\* Loss of the link
\* ------------------------------------------------------------------------
EmittedInStep(event) == \E i \in 1..Len(emitted') : emitted'[i] = event

\* the port the manager is connected through emits 'error'
LinkLost(h) == isConnected /\ port = h /\ PortError(h)

\* C23: when the serial port the manager is connected through fails, the
\* manager reports the state DISCONNECTED through the state callback and is
\* left not connected.
C23_LinkLossReported ==
    [][\A h \in HandleIds :
           LinkLost(h) =>
               /\ ~isConnected'
               /\ port' = 0
               /\ EmittedInStep(PlotterStateEvent("DISCONNECTED"))]_vars

\* the part of C23 that holds: the manager is left not connected
LinkLossDisconnects ==
    [][\A h \in HandleIds : LinkLost(h) => ~isConnected' /\ port' = 0]_vars


\* ------------------------------------------------------------------------
\* The device's state while it draws
\* ------------------------------------------------------------------------
DrawingRoutines == {"DRAW", "SQUARE", "AREA"}

\* C24: from the start of a DRAW, SQUARE or AREA routine to its last step
\* the device's plotterState is STATE_DRAWING, and when the routine has ended
\* without an emergency stop it is STATE_READY.
C24_DrawingWhileRoutine ==
    /\ [](routine.name \in DrawingRoutines => plotterState = "STATE_DRAWING")
    /\ [][routine.name \in DrawingRoutines /\ routine'.name = "NONE"
          => plotterState' = "STATE_READY"]_vars

\* the part of C24 that holds: a routine that ends leaves the state it began
\* in, which is STATE_READY unless the emergency stop came in between
RoutineEndsAsBegun ==
    [][routine.name \in DrawingRoutines /\ routine'.name = "NONE"
          => plotterState' = plotterState]_vars

NeverDrawing == plotterState # "STATE_DRAWING"


\* ------------------------------------------------------------------------
\* The device's state transitions as the host reads them
\* ------------------------------------------------------------------------
\* the PlotterState of the host that stands for a state of the device
HostState(state) ==
    IF state = "STATE_READY" THEN "READY"
    ELSE IF state = "STATE_DRAWING" THEN "DRAWING"
    ELSE "ERROR"

\* the state events the 'data' listener emits for a line the device printed
StateEventsOf(l) ==
    LET m == OnData([Host EXCEPT !.emitted = <<>>], Delimited(l))
    IN  {m.emitted[i] : i \in {j \in 1..Len(m.emitted) : m.emitted[j].ev = "plotter_state"}}

\* C25: a step of the device that changes plotterState prints a line for
\* which the host's 'data' listener emits the state-change event of the new
\* state.
C25_TransitionsAnnounced ==
    [][plotterState' # plotterState
       => \E i \in 1..Len(serialOut') :
              PlotterStateEvent(HostState(plotterState')) \in StateEventsOf(serialOut'[i])]_vars

\* what the model shows instead: no line printed by a step that changes
\* plotterState makes the host emit any state event
TransitionsUnannounced ==
    [][plotterState' # plotterState
       => \A i \in 1..Len(serialOut') : StateEventsOf(serialOut'[i]) = {}]_vars


\* ------------------------------------------------------------------------
\* Relative moves
\* ------------------------------------------------------------------------
\* the X and Y lines the device may receive, and the (dx, dy) of each
RelativeLines == {input \in DeviceLines : input.cmd \in {"X", "Y"}}

Delta(input) ==
    IF input.cmd = "X" THEN [dx |-> ToFloat(input.args, 1), dy |-> 0]
                       ELSE [dx |-> 0, dy |-> ToFloat(input.args, 1)]

\* loop() takes the line input from the receive buffer
Takes(input) ==
    /\ devPc = "serial"
    /\ serialIn # <<>>
    /\ Head(serialIn) = input
    /\ serialIn' = Tail(serialIn)

\* the position of the pen in the plane, moved by the line's delta, as polar
\* coordinates
Shifted(input) ==
    LET cur == polarToCartesian(currentAngleDeg, currentRadiusMM)
    IN  cartesianToPolar(cur.x + Delta(input).dx, cur.y + Delta(input).dy)

RadiusOutside(r) == r < 0 \/ r > 100 * FX

\* C26: an X or Y line moves the current position, taken to Cartesian
\* coordinates, by the delta and takes the sum back to polar coordinates.  If
\* the radius of the sum is outside [0, MAX_RADIUS], the device prints the
\* relative-move error line, announces no move and leaves the position and
\* both steppers' targets as they were; otherwise the sum goes to moveToPolar,
\* which makes it the position and the steppers' target.
C26_RelativeMove ==
    [][\A input \in RelativeLines :
           Takes(input) =>
               LET new == Shifted(input)
               IN  IF RadiusOutside(new.radiusMM)
                   THEN /\ serialOut' = <<ReceivedLine(input), ErrRelative>>
                        /\ PositionUnchanged
                        /\ TargetsUnchanged
                   ELSE /\ Len(serialOut') = 3
                        /\ serialOut'[3] = MovingLine(new.angleDeg, new.radiusMM)
                        /\ currentAngleDeg' = new.angleDeg
                        /\ currentRadiusMM' = new.radiusMM
                        /\ stepperAngular'.targetPos = convertAngleToSteps(new.angleDeg)
                        /\ stepperRadial'.targetPos = convertRadiusToSteps(new.radiusMM)]_vars

\* a relative move refused at the edge of the area, where AREA left the pen
C26_Witness ==
    /\ serialOut = <<ReceivedLine(Line("X", <<10 * FX>>)), ErrRelative>>
    /\ currentRadiusMM = MAX_RADIUS
    /\ currentAngleDeg = 350 * FX

\* a relative move carried out
RelativeMoveDone ==
    /\ Len(serialOut) = 3
    /\ serialOut[1] = ReceivedLine(Line("Y", <<0 - 10 * FX>>))
    /\ currentAngleDeg = 90 * FX
    /\ currentRadiusMM = 40 * FX


\* ------------------------------------------------------------------------
\* The conversions, there and back
\* ------------------------------------------------------------------------
\* The only place where the firmware applies cartesianToPolar to the result
\* of polarToCartesian is moveRelativeXY; with a delta of 0 (the line X0 or
\* Y0) the new position is the round trip of the current one.
RoundTripAngles == {k * 15 * FX : k \in 0..23} \cup {1 * FX, 123 * FX, 359 * FX}
RoundTripRadii == {0, 1 * FX, 50 * FX, 100 * FX}
RoundTripLines == {Line("X", <<0>>), Line("Y", <<0>>)}

\* the device after setup() and a completed MOVE to the position (a, r)
DeviceAt(a, r) ==
    LET boot == [plotterState |-> "STATE_READY",
                 currentAngleDeg |-> 0, currentRadiusMM |-> 0,
                 currentMaxSpeedAngular |-> BootMaxSpeed,
                 currentAccelAngular |-> BootAccel,
                 currentMaxSpeedRadial |-> BootMaxSpeed,
                 currentAccelRadial |-> BootAccel,
                 stepperAngular |-> NewStepper(BootMaxSpeed, BootAccel),
                 stepperRadial |-> NewStepper(BootMaxSpeed, BootAccel),
                 out |-> <<>>]
        d == RunToTarget(moveToPolar([moveToPolar(boot, 10 * FX, 10 * FX)
                                          EXCEPT !.out = <<>>], a, r))
    IN  /\ plotterState = d.plotterState
        /\ currentAngleDeg = d.currentAngleDeg
        /\ currentRadiusMM = d.currentRadiusMM
        /\ currentMaxSpeedAngular = d.currentMaxSpeedAngular
        /\ currentAccelAngular = d.currentAccelAngular
        /\ currentMaxSpeedRadial = d.currentMaxSpeedRadial
        /\ currentAccelRadial = d.currentAccelRadial
        /\ stepperAngular = d.stepperAngular
        /\ stepperRadial = d.stepperRadial
        /\ serialOut = d.out
        /\ estopPin = "HIGH"
        /\ serialIn = <<>>
        /\ devPc = "pin"
        /\ routine = NoRoutine
        /\ stepped = FALSE
        /\ linesReceived = 0

InitRoundTrip ==
    /\ \E a \in RoundTripAngles, r \in RoundTripRadii : DeviceAt(a, r)
    /\ HostInit
    /\ build = "serial"
    /\ ~replit

\* a line X0 or Y0 arrives on the serial link
RoundTripReceive ==
    /\ linesReceived < MaxLines
    /\ Len(serialIn) < MaxPending
    /\ \E input \in RoundTripLines : serialIn' = Append(serialIn, input)
    /\ linesReceived' = linesReceived + 1
    /\ UNCHANGED <<estopPin, hostVars>>
    /\ fwUnchanged

RoundTripNext ==
    \/ LoopCheckPin
    \/ LoopSerial
    \/ RoundTripReceive

SpecRoundTrip == InitRoundTrip /\ [][RoundTripNext]_vars

\* the distance of two angles around the circle, and the tolerances: one
\* degree, and two hundredths of a millimetre
AngleApart(a, b) ==
    LET diff == Abs(a - b) % (360 * FX)
    IN  IF diff <= 180 * FX THEN diff ELSE 360 * FX - diff

AngleTolerance == 1 * FX
RadiusTolerance == 2 * (FX \div 100)

Close(new, angleDeg, radiusMM) ==
    /\ 0 <= new.angleDeg /\ new.angleDeg < 360 * FX
    /\ AngleApart(new.angleDeg, angleDeg) <= AngleTolerance
    /\ Abs(new.radiusMM - radiusMM) <= RadiusTolerance

\* C27: from a position (a, r) with a in [0, 360) and r in [0, MAX_RADIUS],
\* taking the position to Cartesian coordinates and back gives an angle in
\* [0, 360) and a radius that are (a, r) within tolerance: a relative move
\* by nothing, which applies the one conversion to the result of the other,
\* stays where it is.
C27_RoundTrip ==
    [][\A input \in RoundTripLines :
           Takes(input) /\ currentAngleDeg < 360 * FX /\ currentRadiusMM <= MAX_RADIUS
           => Close([angleDeg |-> currentAngleDeg', radiusMM |-> currentRadiusMM'],
                    currentAngleDeg, currentRadiusMM)]_vars

\* the part of C27 that holds: away from the origin the round trip returns
\* the position
RoundTripAwayFromOrigin ==
    [][\A input \in RoundTripLines :
           Takes(input) /\ currentAngleDeg < 360 * FX /\ currentRadiusMM > 0
           => Close([angleDeg |-> currentAngleDeg', radiusMM |-> currentRadiusMM'],
                    currentAngleDeg, currentRadiusMM)]_vars

\* at the origin the angle comes back as 0, whatever it was
OriginLosesAngle ==
    [][\A input \in RoundTripLines :
           Takes(input) /\ currentRadiusMM = 0
           => currentAngleDeg' = 0 /\ currentRadiusMM' = 0]_vars


\* ------------------------------------------------------------------------
\* The events of one line
\* ------------------------------------------------------------------------
\* the place of an event among those of one line: the received entry, then
\* the state change, then the position report
EventRank(e) ==
    IF e.ev = "log_message" THEN 1
    ELSE IF e.ev = "plotter_state" THEN 2
    ELSE 3

ReceivedEntry(line) == LogMessage("received", Chars(trim(line.chars)))

\* the emissions of the step are those of the line, once for each parser
\* piped from the port: each pass begins with the line's received entry and
\* goes on in rank order, and no other log entry is among them
EmittedLineByLine(line, passes) ==
    /\ emitted' # <<>>
    /\ emitted'[1] = ReceivedEntry(line)
    /\ \A i \in 2..Len(emitted') :
           \/ emitted'[i] = ReceivedEntry(line)
           \/ EventRank(emitted'[i]) > EventRank(emitted'[i - 1]) /\ EventRank(emitted'[i]) > 1
    /\ Cardinality({i \in 1..Len(emitted') : emitted'[i] = ReceivedEntry(line)}) = passes

\* what the sessions are sent in the step is what was emitted, in the order
\* of emission
DeliveredInOrder ==
    /\ \A i \in 1..Len(delivered') :
           /\ delivered'[i].src \in 1..Len(emitted')
           /\ delivered'[i].event = emitted'[delivered'[i].src]
    /\ \A i, j \in 1..Len(delivered') :
           i < j => delivered'[i].src < delivered'[j].src

\* C28: the step that reads a line emits the line's events and no others,
\* the received entry first, then the state change if there is one, then the
\* position report if there is one, and each session is sent them in that
\* order; the events of the next line belong to a later step.
C28_LineAtATime ==
    [][\A h \in HandleIds, line \in InboundLines :
           DataLine(h, line)
           => /\ EmittedLineByLine(line, handles[h].parsers)
              /\ DeliveredInOrder
              /\ messageCallback # 0
                 => \E i \in 1..Len(delivered') : delivered'[i].src = Len(emitted')]_vars

\* the line of an unknown command has been read: its received entry, then
\* the ERROR state, both sent to the session that holds the callbacks
C28_Witness ==
    /\ emitted = <<ReceivedEntry(Delimited(ErrUnknown)), PlotterStateEvent("ERROR")>>
    /\ Len(delivered) = 2
    /\ delivered[1].src = 1
    /\ delivered[2].src = 2


\* ------------------------------------------------------------------------
\* Commands of several sessions on the one wire
\* ------------------------------------------------------------------------
OrderCommands ==
    { [type |-> "MOVE", angle |-> 30 * FX, radius |-> 50 * FX],
      [type |-> "X", value |-> 0 - 550],
      [type |-> "STATUS"],
      [type |-> "ESTOP"] }

\* a session sends a command, whatever is in flight
OrderSend(ws, command) ==
    /\ linesReceived + Len(pendingWrites) < MaxQueued
    /\ SendCommandMessage(ws, command)

\* the write of the oldest line completes; the device does not read, so that
\* serialIn keeps every line written, in the order of writing
OrderWrite(err) ==
    /\ pendingWrites # <<>>
    /\ SetHost(WriteCallback([Host EXCEPT !.pendingWrites = Tail(@),
                                          !.staleWrites = IF @ > 0 THEN @ - 1 ELSE 0],
                             Head(pendingWrites), err))
    /\ enumerated' = NotListed
    /\ serialIn' = IF err THEN serialIn
                   ELSE Append(serialIn, Tokenise(Written(Head(pendingWrites))))
    /\ linesReceived' = IF err THEN linesReceived ELSE linesReceived + 1
    /\ UNCHANGED estopPin
    /\ fwUnchanged

OrderNext ==
    \/ \E portPath \in Paths : WireConnect(portPath)
    \/ \E h \in HandleIds, err \in BOOLEAN : OpenDone(h, err)
    \/ \E ws \in Observers, command \in OrderCommands : OrderSend(ws, command)
    \/ \E err \in BOOLEAN : OrderWrite(err)

SpecOrder == InitWire /\ [][OrderNext]_vars

\* the line of a command as the device finds it
CommandLine(command) == Line(command.type, FieldsOf(command))

\* the lines written and the lines in flight, oldest first
\* the line of the command that a write in flight carries
LineOfWrite(w) ==
    CommandLine(CHOOSE command \in OrderCommands : Encode(command) = w)

InSendOrder ==
    serialIn \o [i \in 1..Len(pendingWrites) |-> LineOfWrite(pendingWrites[i])]

WriteFailed == EmittedInStep(LogMessage("error", Text("Failed to send command")))

TwoInFlight == Len(pendingWrites) = 2 /\ pendingWrites[1] # pendingWrites[2]


\* ------------------------------------------------------------------------
\* Sessions that come and go
\* ------------------------------------------------------------------------
\* the session ws is open and the manager's three callbacks are its closures:
\* the events of the device are sent to it
Served(ws) ==
    /\ clients[ws] = "OPEN"
    /\ messageCallback = ws
    /\ stateCallback = ws
    /\ positionCallback = ws

SessionChange == \E other \in Observers : clients'[other] # clients[other]

\* C30: when a session opens or closes, every session that is open afterwards
\* is one the device's events are sent to, and such a session is sent each
\* event the manager emits for a line of the device exactly once.
C30_OthersKeepReceiving ==
    /\ [][SessionChange
          => \A ws \in Observers : clients'[ws] = "OPEN" => Served(ws)']_vars
    /\ [](\A ws \in Observers :
              Served(ws) => \A i \in 1..Len(emitted) :
                                DeviceEvent(emitted[i]) => Received(ws, i) = 1)

\* the part of C30 that holds: the session that holds the callbacks is sent
\* each event of the device once
ServedReceivesOnce ==
    \A ws \in Observers :
        Served(ws) => \A i \in 1..Len(emitted) :
                          DeviceEvent(emitted[i]) => Received(ws, i) = 1

\* the session that opened last has closed: a session is open and the
\* callbacks are those of no open session
NobodyServed ==
    /\ \E ws \in Observers : clients[ws] = "OPEN"
    /\ \A ws \in Observers : ~Served(ws)
    /\ messageCallback # 0
    /\ clients[messageCallback] = "NONE"


\* ------------------------------------------------------------------------
\* Patterns, target by target
\* ------------------------------------------------------------------------
LastTarget(name) == RoutineTarget(name, RoutineLen(name) - 1)

\* a step of a pattern's loop: the wait for the target issued last, then the
\* next target or the end of the pattern
PatternStep ==
    /\ devPc = "wait"
    /\ routine.name \in DrawingRoutines
    /\ routine' # routine

IssuesNext == routine'.name = routine.name /\ routine'.i = routine.i + 1

\* C31: DRAW, SQUARE and AREA issue their targets one after the other, each
\* when both steppers have no distance left to the target before it: the
\* step that issues target i + 1 makes it the position and the steppers'
\* target, and a stepper whose target it does not change is at its target;
\* the pattern ends with both steppers at their targets and the position at
\* its last vertex.
C31_TargetByTarget ==
    [][PatternStep =>
         /\ IssuesNext \/ routine' = NoRoutine
         /\ IssuesNext =>
              LET t == RoutineTarget(routine.name, routine.i + 1)
              IN  /\ currentAngleDeg' = t.angleDeg
                  /\ currentRadiusMM' = t.radiusMM
                  /\ stepperAngular'.targetPos = convertAngleToSteps(t.angleDeg)
                  /\ stepperRadial'.targetPos = convertRadiusToSteps(t.radiusMM)
                  /\ stepperAngular'.targetPos = stepperAngular.targetPos
                        => DistanceToGoIsZero(stepperAngular')
                  /\ stepperRadial'.targetPos = stepperRadial.targetPos
                        => DistanceToGoIsZero(stepperRadial')
                  /\ serialOut' = <<MovingLine(t.angleDeg, t.radiusMM)>>
         /\ routine' = NoRoutine =>
              /\ routine.i = RoutineLen(routine.name) - 1
              /\ DistanceToGoIsZero(stepperAngular')
              /\ DistanceToGoIsZero(stepperRadial')
              /\ currentAngleDeg' = LastTarget(routine.name).angleDeg
              /\ currentRadiusMM' = LastTarget(routine.name).radiusMM
              /\ serialOut' = <<DoneLine(routine.name)>>
              /\ devPc' = "pin"]_vars

\* DRAW has ended at its last target, 350 degrees on the 50 mm circle
C31_Witness ==
    /\ serialOut = <<DoneLine("DRAW")>>
    /\ routine = NoRoutine
    /\ currentAngleDeg = 350 * FX
    /\ currentRadiusMM = 50 * FX
    /\ DistanceToGoIsZero(stepperAngular)
    /\ DistanceToGoIsZero(stepperRadial)

\* SQUARE has ended at its closing vertex
SquareDone ==
    /\ serialOut = <<DoneLine("SQUARE")>>
    /\ currentAngleDeg = 45 * FX
    /\ currentRadiusMM = SquareTargets[vertexCount].radiusMM


\* ------------------------------------------------------------------------
\* SPEED lines, as characters
\* ------------------------------------------------------------------------
SpeedBuffers ==
    { <<"SPEED", " ", "8", "0", "0", " ", "2", "0", "0", " ", "7", "0", "0", " ",
        "2", "5", "0", ".", "5", "\n">>,
      <<"SPEED", " ", "8", "0", "0", "\n">>,
      <<"SPEED", " ", "8", "0", "0", " ", "2", "0", "0", " ", "7", "0", "0", "\n">>,
      <<"SPEED", " ", "a", " ", "b", " ", "c", " ", "a", "\n">>,
      <<"SPEED", " ", "9", "0", "0", " ", "3", "0", "0", " ", "a", "b", "c", " ",
        "1", "0", "0", "\r", "\n">> }

\* a line arrives on the serial link, character by character
SpeedReceive ==
    /\ linesReceived < MaxLines
    /\ Len(serialIn) < MaxPending
    /\ \E buffer \in SpeedBuffers : serialIn' = Append(serialIn, Tokenise(buffer))
    /\ linesReceived' = linesReceived + 1
    /\ UNCHANGED <<estopPin, hostVars>>
    /\ fwUnchanged

SpeedNext ==
    \/ LoopCheckPin
    \/ LoopSerial
    \/ SpeedReceive

SpecSpeed == InitDevice /\ [][SpeedNext]_vars

\* the words of a line, cut at its spaces
RECURSIVE Words(_)
Words(str) ==
    LET space == indexOf(str, " ")
    IN  IF space < 0 THEN <<str>>
        ELSE <<substring(str, 0, space)>> \o Words(substringFrom(str, space + 1))

\* SPEED <angularMax> <angularAccel> <radialMax> <radialAccel>: the word and
\* four decimal numbers
WellFormedSpeed(buffer) ==
    LET words == Words(trim(readStringUntil(buffer, "\n")))
    IN  /\ Len(words) = 5
        /\ words[1] = <<"SPEED">>
        /\ \A k \in 2..5 : IsDecimal(words[k])

SpeedValue(buffer, k) == toFloat(Words(trim(readStringUntil(buffer, "\n")))[k + 1])

ProfileIs(aMax, aAcc, rMax, rAcc) ==
    /\ currentMaxSpeedAngular' = aMax
    /\ currentAccelAngular' = aAcc
    /\ currentMaxSpeedRadial' = rMax
    /\ currentAccelRadial' = rAcc
    /\ stepperAngular'.maxSpeed = aMax
    /\ stepperAngular'.acceleration = aAcc
    /\ stepperRadial'.maxSpeed = rMax
    /\ stepperRadial'.acceleration = rAcc

\* C32: when loop() reads a SPEED line with four numbers, the four values
\* of the stored profile and those of the two steppers are the line's; when
\* it reads a SPEED line that is malformed, none of the eight changes.
C32_SpeedAtomic ==
    [][\A buffer \in SpeedBuffers :
           Takes(Tokenise(buffer))
           => IF WellFormedSpeed(buffer)
              THEN ProfileIs(SpeedValue(buffer, 1), SpeedValue(buffer, 2),
                             SpeedValue(buffer, 3), SpeedValue(buffer, 4))
              ELSE ProfileUnchanged]_vars

\* the part of C32 that holds: four numbers set all eight values, and a
\* SPEED line with fewer than four fields changes none and is answered by
\* the error line
SpeedFourOrNone ==
    [][\A buffer \in SpeedBuffers :
           Takes(Tokenise(buffer))
           => IF WellFormedSpeed(buffer)
              THEN ProfileIs(SpeedValue(buffer, 1), SpeedValue(buffer, 2),
                             SpeedValue(buffer, 3), SpeedValue(buffer, 4))
              ELSE Len(Words(trim(readStringUntil(buffer, "\n")))) < 5
                   => ProfileUnchanged /\ Printed(serialOut', ErrInvalidSpeed)]_vars

\* a line of four words that are no numbers has set the whole profile to 0
SpeedZeroed ==
    /\ currentMaxSpeedAngular = 0
    /\ currentAccelRadial = 0
    /\ stepperAngular.maxSpeed = 0
    /\ stepperRadial.acceleration = 0


\* ------------------------------------------------------------------------
\* The position and the steppers' targets
\* ------------------------------------------------------------------------
WithinSoftLimits ==
    /\ 0 <= currentAngleDeg /\ currentAngleDeg <= 360 * FX
    /\ 0 <= currentRadiusMM /\ currentRadiusMM <= 100 * FX

\* the stepper is bound for the step count steps: that is the target moveTo
\* gave it, and no stop() has replaced it by the place where the stepper
\* comes to rest
BoundFor(s, steps) == s.targetPos = steps /\ ~s.stopped

\* C33: in every state of the device the position is within the soft limits
\* and, unless the device is in the emergency stop, each stepper is bound for
\* the step count of that position.
C33_PositionIsTarget ==
    /\ WithinSoftLimits
    /\ plotterState # "STATE_ERROR"
       => /\ BoundFor(stepperAngular, convertAngleToSteps(currentAngleDeg))
          /\ BoundFor(stepperRadial, convertRadiusToSteps(currentRadiusMM))

\* the part of C33 that holds: the position is within the limits, and the
\* target moveTo was given last is the step count of the position
LastMoveToIsPosition ==
    /\ WithinSoftLimits
    /\ stepperAngular.targetPos = convertAngleToSteps(currentAngleDeg)
    /\ stepperRadial.targetPos = convertRadiusToSteps(currentRadiusMM)

\* until an emergency stop has taken place, the steppers are bound for the
\* position
BoundUntilStopped ==
    [][(~stepperAngular.stopped /\ ~stepperRadial.stopped /\ plotterState' # "STATE_ERROR")
       => (~stepperAngular'.stopped /\ ~stepperRadial'.stopped)]_vars


\* ------------------------------------------------------------------------
\* Connect calls that fail
\* ------------------------------------------------------------------------
\* the promise of the connect call that created h is rejected in this step:
\* it settles, and not by an open that succeeded
Rejected(h) ==
    /\ handles[h].promise = "pending"
    /\ handles'[h].promise = "settled"
    /\ handles'[h].state # "open"

\* the connect call that created h was rejected by its open-timeout, and the
\* open is still under way
RejectedWhileOpening(h) == handles[h].state = "opening" /\ handles[h].promise = "settled"

\* C34: the step in which a connect call is rejected leaves the manager not
\* connected and the call's port not open, and so does the later completion
\* of an open whose call was rejected by the timeout.
C34_FailedStaysDisconnected ==
    [][\A h \in HandleIds :
           /\ Rejected(h) => ~isConnected' /\ ~IsOpen(handles', h)
           /\ (RejectedWhileOpening(h) /\ handles'[h].state # "opening")
              => ~isConnected' /\ ~IsOpen(handles', h)]_vars

\* a connect call has been rejected and its port is still the manager's
FailedPortRetained ==
    \E h \in HandleIds :
        port = h /\ handles[h].promise = "settled" /\ handles[h].state = "closed"

\* ------------------------------------------------------------------------
\* Connect calls settle
\* ------------------------------------------------------------------------
\* port.open calls back in the end, with or without an error, and a timer
\* that is set fires unless it is cleared
OpenFairness ==
    \A h \in HandleIds :
        /\ WF_vars(\E err \in BOOLEAN : OpenDone(h, err))
        /\ WF_vars(OpenTimeout(h))

SpecConnectionFair == SpecConnection /\ OpenFairness

\* the connect call that created h has not settled and nothing is left that
\* could settle it: the open has called back and the timer is gone
Unsettled(h) ==
    /\ handles[h].promise = "pending"
    /\ handles[h].state # "opening"
    /\ ~handles[h].openTimer

\* C35: every connect call settles in the end, whatever disconnect and
\* other connect calls do in between, and a call that has settled stays
\* settled.
C35_ConnectSettles ==
    /\ \A h \in HandleIds :
           (handles[h].promise = "pending") ~> (handles[h].promise = "settled")
    /\ [][\A h \in HandleIds :
              handles[h].promise = "settled" => handles'[h].promise = "settled"]_vars

\* no connect call is left without anything that could settle it
NoneUnsettled == \A h \in HandleIds : ~Unsettled(h)

\* ------------------------------------------------------------------------
\* Ports the manager no longer holds
\* ------------------------------------------------------------------------
\* h is a port a connect call created and the manager does not hold: it was
\* replaced by a later connect or released by disconnect
Stale(h) == handles[h].state # "none" /\ port # h

\* an event of the device reaches an observer in this step
DeviceEventDelivered ==
    \E i \in 1..Len(delivered') :
        delivered'[i].event.ev \in {"plotter_state", "plotter_position"}

\* the port the manager holds is left as it is
CurrentKept ==
    /\ UNCHANGED <<port, parser, isConnected>>
    /\ port # 0 => handles'[port].state = handles[port].state

\* C36: an 'error' event of a port the manager no longer holds leaves the
\* port it holds connected, and a line that arrives on such a port delivers
\* no state or position event to the observers.
C36_StaleHandlesInert ==
    [][\A h \in HandleIds :
           Stale(h) =>
               /\ PortError(h) => CurrentKept
               /\ \A line \in HostLines : DataLine(h, line) => ~DeviceEventDelivered]_vars

\* the part of C36 that holds for a replaced port whose close succeeded: it
\* has no events any more
ClosedIsSilent ==
    [][\A h \in HandleIds :
           handles[h].state = "closed" =>
               /\ ~PortError(h)
               /\ \A line \in HostLines : ~DataLine(h, line)]_vars

\* ------------------------------------------------------------------------
\* Events after a disconnect
\* ------------------------------------------------------------------------
\* the last step told an observer that the device is disconnected
DisconnectReported ==
    \E i \in 1..Len(delivered) :
        delivered[i].event = PlotterStateEvent("DISCONNECTED")

\* an event that stems from the device: a state change to Ready, Drawing or
\* Error, a position report or a received log line
DeviceDerived(event) ==
    \/ event.ev = "plotter_position"
    \/ event.ev = "plotter_state" /\ event.state \in {"READY", "DRAWING", "ERROR"}
    \/ event.ev = "log_message" /\ event.type = "received"

\* C37: the step that follows the report of a disconnect to the observers
\* delivers no event that stems from the device, unless it is the step in
\* which a connect succeeds.
C37_SilentAfterDisconnect ==
    [][DisconnectReported /\ ~isConnected'
       => \A i \in 1..Len(delivered') : ~DeviceDerived(delivered'[i].event)]_vars

\* the part of C37 that holds: once the released port has closed, nothing
\* that stems from the device is delivered while the manager holds no port
SilentOnceClosed ==
    [][/\ port = 0 /\ port' = 0
       /\ \A h \in HandleIds : handles[h].state \in {"none", "closed"}
       => \A i \in 1..Len(delivered') : ~DeviceDerived(delivered'[i].event)]_vars

\* ------------------------------------------------------------------------
\* The device's state as the host holds it
\* ------------------------------------------------------------------------
\* the 'data' listener is called with the oldest line the device printed
MirrorRead ==
    /\ serialOut # <<>>
    /\ LET m == OnData(Host, Delimited(Head(serialOut)))
       IN  /\ SetFields(m)
           /\ mirror' = Mirrored(mirror, m.emitted)
    /\ UNCHANGED <<storageBuild, settings, settingsCurrentId>>
    /\ enumerated' = NotListed
    /\ serialOut' = Tail(serialOut)
    /\ linkUnchanged

MirrorNext ==
    \/ WireLoopCheckPin
    \/ WireLoopSerial
    \/ WireRoutineStep
    \/ SerialReceive
    \/ MirrorRead

\* the device after setup() and a serial.ts server that has connected to it
\* and told its observers that the device is Ready
InitMirror == DeviceInit /\ ManagerInit /\ build = "serial" /\ ~replit /\ mirror = "READY"

SpecMirror == InitMirror /\ [][MirrorNext]_vars

\* the host has parsed every line the device has printed
AllParsed == serialOut = <<>>

\* the host parses the last line of the device's answer to RESET
ResetAnswered ==
    /\ serialOut # <<>>
    /\ Head(serialOut) \in {ResetLine, AlreadyReady}
    /\ serialOut' = <<>>

\* C38: once the host has parsed every line the device printed, it holds the
\* device to be in Error only if plotterState is STATE_ERROR (so a rejected
\* move does not leave it at Error while the device is Ready), and when it
\* has parsed the device's answer to RESET it holds the device to be Ready.
C38_MirrorSound ==
    /\ [](AllParsed /\ mirror = "ERROR" => plotterState = "STATE_ERROR")
    /\ [][ResetAnswered => mirror' = "READY"]_vars

\* the first half alone, and the second half alone
ErrorMirrorsError == AllParsed /\ mirror = "ERROR" => plotterState = "STATE_ERROR"

ResetMirrorsReady == [][ResetAnswered => mirror' = "READY"]_vars

\* what holds: the host never takes the device to be Ready or Drawing from
\* a line the device printed
NeverMirrorsReady == [][mirror' # mirror => mirror' = "ERROR"]_vars

\* ------------------------------------------------------------------------
\* The emergency stop while a routine blocks loop()
\* ------------------------------------------------------------------------
\* the emergency-stop input is asserted, or an ESTOP line waits in the
\* receive buffer
EmergencyStopAsked ==
    \/ estopPin = "LOW"
    \/ \E i \in 1..Len(serialIn) : serialIn[i].cmd = "ESTOP"

\* a routine issues its next target, or ends
RoutineGoesOn == devPc = "wait" /\ routine' # routine

\* C39: when the emergency stop has been asked for while a pattern or the
\* homing routine runs, the routine neither issues its next target nor ends
\* without the device being in STATE_ERROR and its steppers at rest.
C39_StopDuringRoutine ==
    [][EmergencyStopAsked /\ RoutineGoesOn
       => plotterState' = "STATE_ERROR" /\ ~stepped']_vars

\* what the model shows instead: while a routine runs, no step changes
\* plotterState or takes a line from the receive buffer
RoutineIgnoresStop ==
    [][devPc = "wait"
       => /\ plotterState' = plotterState
          /\ \/ serialIn' = serialIn
             \/ Len(serialIn') > Len(serialIn)]_vars

====
